---- MODULE Spec2Model ----
(***************************************************************************)
(* A model of the DFLIX proxy server: the /api/stream and /api/files        *)
(* boundaries of server/index.js, HTTPService.getFileSize / streamFile,    *)
(* HTTPService.listFiles / fetchHTML and the listing parser                *)
(* HTTPService.parseDirectoryListing of server/httpService.js.             *)
(*                                                                         *)
(* JavaScript strings that the code inspects character by character are    *)
(* sequences of one-character strings; header names are lower-cased, as    *)
(* Node stores them.                                                       *)
(***************************************************************************)
EXTENDS Integers, Sequences, FiniteSets, TLC

VARIABLES
  pc,        \* position of the call: "idle", "head", "stream", "returned"
  via,       \* "boundary" (app.get('/api/stream')) or "direct" (a caller of streamFile)
  filePath,  \* req.query.path
  range,     \* req.headers.range: <<>> when absent, else the header value
  upstream,  \* the origin server: resource size, HEAD and GET behaviour
  fileSize,  \* const fileSize = await httpService.getFileSize(filePath)
  start,     \* start, as passed to streamFile
  end,       \* end, as passed to streamFile (Null when not given)
  response,  \* the client sink: headersSent, statusCode, headers set on it
  wire,      \* what the client has received: status, headers, body, ended
  get,       \* the upstream GET of streamFile: phase, request headers, response
  promise,   \* the promise streamFile returns: "none", "pending", "resolved", "rejected"
  failure,   \* the upstream transport failure of this call, "none" if there was none
  html,      \* listing parser: the document handed to parseDirectoryListing
  currentPath, \* listing parser: the remotePath list(path) passes in
  files,     \* listing parser: the entries returned
  parsed,    \* listing parser: whether parseDirectoryListing has returned
  list,      \* GET /api/files: the call's position, its upstream GET, its answer
  calls,     \* concurrent GET /api/stream calls: one record per call
  timer,     \* an upstream request and its socket timeout: elapsed and idle time
  browser    \* client FileBrowser: current path, displayed state, pending requests

vars == <<pc, via, filePath, range, upstream, fileSize, start, end, response,
          wire, get, promise, failure, html, currentPath, files, parsed,
          list, calls, timer, browser>>

streamVars == <<pc, via, filePath, range, upstream, fileSize, start, end,
                response, wire, get, promise, failure>>

parserVars == <<html, currentPath, files, parsed>>

(***************************************************************************)
(* Bounds of the model.                                                    *)
(***************************************************************************)
MaxSize == 3      \* resources have 0..MaxSize bytes
MaxOffset == 4    \* Range headers name offsets 0..MaxOffset

(***************************************************************************)
(* JavaScript values.                                                      *)
(***************************************************************************)
\* A JavaScript number is an integer or NaN.
Num(n) == [nan |-> FALSE, v |-> n]
NaN == [nan |-> TRUE, v |-> 0]
isNaN(a) == a.nan
JsSub(a, b) == IF a.nan \/ b.nan THEN NaN ELSE Num(a.v - b.v)
JsAdd(a, b) == IF a.nan \/ b.nan THEN NaN ELSE Num(a.v + b.v)
\* null
Null == [null |-> TRUE]
\* A string, where the value may be null as well.
Str(s) == [str |-> s]

DigitChars == <<"0", "1", "2", "3", "4", "5", "6", "7", "8", "9">>
IsDigit(c) == \E i \in 1..10 : DigitChars[i] = c
DigitVal(c) == (CHOOSE i \in 1..10 : DigitChars[i] = c) - 1
IsSpace(c) == c \in {" ", "\t", "\n"}

\* String(n) for a non-negative integer, as a sequence of characters.
RECURSIVE Digits(_)
Digits(n) == IF n < 10 THEN <<DigitChars[n + 1]>>
             ELSE Append(Digits(n \div 10), DigitChars[(n % 10) + 1])

\* The characters of a string joined into a TLA+ string.
RECURSIVE Join(_)
Join(s) == IF s = <<>> THEN "" ELSE Head(s) \o Join(Tail(s))

\* `${a}` in a template literal: the characters of a number.
JsChars(a) == IF a.nan THEN <<"N", "a", "N">>
              ELSE IF a.v < 0 THEN <<"-">> \o Digits(0 - a.v)
              ELSE Digits(a.v)
JsStr(a) == Join(JsChars(a))

RECURSIVE SkipSpaces(_)
SkipSpaces(s) == IF s # <<>> /\ IsSpace(Head(s)) THEN SkipSpaces(Tail(s)) ELSE s

\* The value of the longest prefix of digits of s, acc being the digits read.
RECURSIVE DigitPrefix(_, _, _)
DigitPrefix(s, acc, seen) ==
  IF s # <<>> /\ IsDigit(Head(s))
  THEN DigitPrefix(Tail(s), 10 * acc + DigitVal(Head(s)), TRUE)
  ELSE IF seen THEN Num(acc) ELSE NaN

\* parseInt(s, 10): leading white space, an optional sign, then decimal
\* digits up to the first other character; NaN when there is no digit.
parseInt(s) ==
  LET t == SkipSpaces(s)
      neg == t # <<>> /\ Head(t) = "-"
      u == IF t # <<>> /\ Head(t) \in {"-", "+"} THEN Tail(t) ELSE t
      r == DigitPrefix(u, 0, FALSE)
  IN IF r.nan THEN NaN ELSE IF neg THEN Num(0 - r.v) ELSE r

\* Whether p is a prefix of s.
startsWith(s, p) == Len(s) >= Len(p) /\ SubSeq(s, 1, Len(p)) = p
endsWith(s, p) == Len(s) >= Len(p) /\ SubSeq(s, Len(s) - Len(p) + 1, Len(s)) = p
\* s.includes(p)
includes(s, p) == \E i \in 1..(Len(s) - Len(p) + 1) : SubSeq(s, i, i + Len(p) - 1) = p

\* s.replace(p, "") for a literal pattern p: the first occurrence is removed.
removeFirst(s, p) ==
  IF includes(s, p)
  THEN LET i == CHOOSE k \in 1..(Len(s) - Len(p) + 1) :
                  /\ SubSeq(s, k, k + Len(p) - 1) = p
                  /\ \A j \in 1..(k - 1) : SubSeq(s, j, j + Len(p) - 1) # p
       IN SubSeq(s, 1, i - 1) \o SubSeq(s, i + Len(p), Len(s))
  ELSE s

\* s.split(c) for a one-character separator c.
RECURSIVE split(_, _)
split(s, c) ==
  IF \E i \in 1..Len(s) : s[i] = c
  THEN LET i == CHOOSE k \in 1..Len(s) : s[k] = c /\ \A j \in 1..(k - 1) : s[j] # c
       IN <<SubSeq(s, 1, i - 1)>> \o split(SubSeq(s, i + 1, Len(s)), c)
  ELSE <<s>>

(***************************************************************************)
(* getContentType (server/index.js).                                       *)
(***************************************************************************)
UpperChars == <<"A", "D", "G", "M", "O", "P", "X">>
LowerChars == <<"a", "d", "g", "m", "o", "p", "x">>
toLowerCaseChar(c) ==
  IF \E i \in 1..Len(UpperChars) : UpperChars[i] = c
  THEN LowerChars[CHOOSE i \in 1..Len(UpperChars) : UpperChars[i] = c]
  ELSE c
toLowerCase(s) == [i \in 1..Len(s) |-> toLowerCaseChar(s[i])]

RECURSIVE stripTrailingSlashes(_)
stripTrailingSlashes(s) ==
  IF s # <<>> /\ s[Len(s)] = "/" THEN stripTrailingSlashes(SubSeq(s, 1, Len(s) - 1))
  ELSE s

\* path.extname (posix): the part of the last path segment from its last
\* '.', empty when the segment has no '.', starts with its only '.', or is "..".
extname(path) ==
  LET p == stripTrailingSlashes(path)
      slashes == {i \in 1..Len(p) : p[i] = "/"}
      startPart == IF slashes = {} THEN 1
                   ELSE (CHOOSE i \in slashes : \A j \in slashes : j <= i) + 1
      dots == {i \in startPart..Len(p) : p[i] = "."}
      startDot == CHOOSE i \in dots : \A j \in dots : j <= i
  IN IF dots = {} THEN <<>>
     ELSE IF startDot = startPart THEN <<>>
     ELSE IF startDot = Len(p) /\ startDot = startPart + 1 /\ p[startPart] = "." THEN <<>>
     ELSE SubSeq(p, startDot, Len(p))

\* const contentTypes = {...}: a key written twice keeps its last value.
contentTypes ==
  [ext \in {".mp4", ".webm", ".ogg", ".ogv", ".mkv", ".avi", ".mov", ".wmv",
            ".flv", ".m4v", ".3gp", ".ts", ".mts", ".mp3", ".wav", ".m4a",
            ".flac", ".aac", ".oga", ".opus", ".wma", ".jpg", ".jpeg", ".png",
            ".gif", ".pdf", ".txt", ".json"} |->
     CASE ext = ".mp4" -> "video/mp4"
       [] ext = ".webm" -> "video/webm"
       [] ext = ".ogg" -> "audio/ogg"
       [] ext = ".ogv" -> "video/ogg"
       [] ext = ".mkv" -> "video/x-matroska"
       [] ext = ".avi" -> "video/x-msvideo"
       [] ext = ".mov" -> "video/quicktime"
       [] ext = ".wmv" -> "video/x-ms-wmv"
       [] ext = ".flv" -> "video/x-flv"
       [] ext = ".m4v" -> "video/x-m4v"
       [] ext = ".3gp" -> "video/3gpp"
       [] ext = ".ts" -> "video/mp2t"
       [] ext = ".mts" -> "video/mp2t"
       [] ext = ".mp3" -> "audio/mpeg"
       [] ext = ".wav" -> "audio/wav"
       [] ext = ".m4a" -> "audio/mp4"
       [] ext = ".flac" -> "audio/flac"
       [] ext = ".aac" -> "audio/aac"
       [] ext = ".oga" -> "audio/ogg"
       [] ext = ".opus" -> "audio/opus"
       [] ext = ".wma" -> "audio/x-ms-wma"
       [] ext = ".jpg" -> "image/jpeg"
       [] ext = ".jpeg" -> "image/jpeg"
       [] ext = ".png" -> "image/png"
       [] ext = ".gif" -> "image/gif"
       [] ext = ".pdf" -> "application/pdf"
       [] ext = ".txt" -> "text/plain"
       [] OTHER -> "application/json"]

getContentType(path) ==
  LET ext == Join(toLowerCase(extname(path)))
  IN IF ext \in DOMAIN contentTypes THEN contentTypes[ext]
     ELSE "application/octet-stream"

(***************************************************************************)
(* The upstream server (the environment of the proxy).                     *)
(***************************************************************************)
\* The resource: the byte at offset i has the value i.
Resource(size) == [i \in 1..size |-> i - 1]
\* The body of an upstream error page.
ErrorPage == <<-1, -2>>

IsDigits(s) == s # <<>> /\ \A i \in 1..Len(s) : IsDigit(s[i])
BytesEq == <<"b", "y", "t", "e", "s", "=">>

\* The upstream's reading of a Range request header (RFC 7233): the pair
\* <<first, last>> of a satisfiable or unsatisfiable byte range, or <<>> when
\* the header is absent or not a valid byte-range-spec and is to be ignored.
UpstreamRange(hdr, size) ==
  IF ~startsWith(hdr, BytesEq) THEN <<>>
  ELSE LET parts == split(SubSeq(hdr, Len(BytesEq) + 1, Len(hdr)), "-")
       IN IF Len(parts) # 2 \/ ~IsDigits(parts[1]) THEN <<>>
          ELSE IF parts[2] = <<>> THEN <<parseInt(parts[1]).v, size - 1>>
          ELSE IF ~IsDigits(parts[2]) THEN <<>>
          ELSE IF parseInt(parts[2]).v < parseInt(parts[1]).v THEN <<>>
          ELSE <<parseInt(parts[1]).v,
                 IF parseInt(parts[2]).v > size - 1 THEN size - 1
                 ELSE parseInt(parts[2]).v>>

UpstreamExtraHeaders(u) ==
  [k \in u.extra |-> IF k = "content-encoding" THEN "gzip"
                     ELSE IF k = "transfer-encoding" THEN "chunked"
                     ELSE "W/1"]

\* The upstream's response to the GET of streamFile.
UpstreamGet(hdr, u) ==
  LET r == UpstreamRange(hdr, u.size)
      base == [k \in {"content-type"} |-> "text/html"] @@ UpstreamExtraHeaders(u)
      withLen(body) == ("content-length" :> Join(Digits(Len(body)))) @@ base
  IN IF u.mode = "error"
     THEN [status |-> 404, headers |-> withLen(ErrorPage), body |-> ErrorPage]
     ELSE IF u.mode = "ignore" \/ r = <<>>
     THEN [status |-> 200, headers |-> withLen(Resource(u.size)),
           body |-> Resource(u.size)]
     ELSE IF r[1] >= u.size
     THEN [status |-> 416, headers |-> withLen(<<>>), body |-> <<>>]
     ELSE [status |-> 206,
           headers |-> ("content-range" :>
                          Join(<<"bytes ">> \o Digits(r[1]) \o <<"-">> \o Digits(r[2])
                               \o <<"/">> \o Digits(u.size)))
                       @@ withLen(SubSeq(Resource(u.size), r[1] + 1, r[2] + 1)),
           body |-> SubSeq(Resource(u.size), r[1] + 1, r[2] + 1)]

\* The headers of the upstream's response to the HEAD of getFileSize.
UpstreamHead(u) ==
  IF ~u.hasLength THEN [k \in {"content-type"} |-> "text/html"]
  ELSE IF u.mode = "error"
  THEN [k \in {"content-length"} |-> Digits(Len(ErrorPage))]
  ELSE [k \in {"content-length"} |-> Digits(u.size)]

Upstreams ==
  [size : 0..MaxSize, hasLength : BOOLEAN, mode : {"honour", "ignore", "error"},
   extra : {{}, {"content-encoding"}, {"transfer-encoding", "etag"}}]

(***************************************************************************)
(* The client sink (the Express response) and the wire to the client.      *)
(***************************************************************************)
NoHeaders == [k \in {} |-> ""]

FreshResponse == [headersSent |-> FALSE, statusCode |-> 200, headers |-> NoHeaders]
NothingOnWire == [status |-> 0, headers |-> NoHeaders, body |-> <<>>,
                  error |-> "", ended |-> FALSE]

\* res.writeHead(status, headers): the status line and headers are stored,
\* response.headersSent becomes true; they go out with the first write or end.
writeHead(res, status, headers) ==
  [headersSent |-> TRUE, statusCode |-> status, headers |-> headers @@ res.headers]

\* The stored (or implicit) header block goes out before the first body byte.
flush(res, w) ==
  IF w.status = 0 THEN [w EXCEPT !.status = res.statusCode, !.headers = res.headers]
  ELSE w

\* response.write(chunk), as res.pipe(response) calls it.
write(res, w, chunk) == [flush(res, w) EXCEPT !.body = @ \o chunk]

\* res.status(code).json({ error: message }).
json(w, code, message) ==
  [status |-> code, headers |-> [k \in {"content-type"} |-> "application/json"],
   body |-> <<>>, error |-> message, ended |-> TRUE]

(***************************************************************************)
(* HTTPService.streamFile: the request it issues, the headers it forwards. *)
(***************************************************************************)
\* A streamFile that forgets the end of the range.
RangeHeader_NoEnd(s, e) ==
  IF (~s.nan /\ s.v > 0) \/ e # Null THEN BytesEq \o JsChars(s) \o <<"-">> ELSE <<>>

\* A streamFile that sends a Range header on every call.
RangeHeader_Always(s, e) ==
  IF e # Null THEN BytesEq \o JsChars(s) \o <<"-">> \o JsChars(e)
  ELSE BytesEq \o JsChars(s) \o <<"-">>

\* A streamFile that sets a Range header only when end is given.
RangeHeader_EndOnly(s, e) ==
  IF e # Null THEN BytesEq \o JsChars(s) \o <<"-">> \o JsChars(e) ELSE <<>>

\* headers['Range'] of the upstream GET, <<>> when none is set.
RangeHeader(s, e) ==
  IF (~s.nan /\ s.v > 0) \/ e # Null
  THEN IF e # Null THEN BytesEq \o JsChars(s) \o <<"-">> \o JsChars(e)
       ELSE BytesEq \o JsChars(s) \o <<"-">>
  ELSE <<>>

\* The upstream response headers streamFile copies to the sink.
ForwardedKeys(headers) ==
  {k \in DOMAIN headers : k # "content-encoding" /\ k # "transfer-encoding"}

\* A streamFile that forwards every upstream header.
forward_Unfiltered(res, status, headers) ==
  IF ~res.headersSent
  THEN [res EXCEPT !.statusCode = status, !.headers = headers @@ @]
  ELSE res

\* A streamFile that forwards without looking at response.headersSent.
forward_Unguarded(res, status, headers) ==
  [res EXCEPT !.statusCode = status,
              !.headers = [k \in ForwardedKeys(headers) |-> headers[k]] @@ @]

\* The res callback of streamFile: status and headers are forwarded unless
\* the sink's headers are already sent.
forward(res, status, headers) ==
  IF ~res.headersSent
  THEN [res EXCEPT !.statusCode = status,
                   !.headers = [k \in ForwardedKeys(headers) |-> headers[k]] @@ @]
  ELSE res

\* The Range header of /api/stream, as the handler reads it.
RangeParts(r) == split(removeFirst(r, BytesEq), "-")
RangeStart(r) == parseInt(RangeParts(r)[1])
RangeEnd(r, size) ==
  IF Len(RangeParts(r)) >= 2 /\ RangeParts(r)[2] # <<>>
  THEN parseInt(RangeParts(r)[2])
  ELSE JsSub(size, Num(1))

\* The 206 headers of a ranged response.
RangedHead(path, s, e, size) ==
  [k \in {"content-range", "accept-ranges", "content-length", "content-type",
          "cache-control"} |->
     CASE k = "content-range" ->
            "bytes " \o JsStr(s) \o "-" \o JsStr(e) \o "/" \o JsStr(size)
       [] k = "accept-ranges" -> "bytes"
       [] k = "content-length" -> JsStr(JsAdd(JsSub(e, s), Num(1)))
       [] k = "content-type" -> getContentType(path)
       [] OTHER -> "no-cache"]

\* The 200 headers of an unranged response.
PlainHead(path, size) ==
  [k \in {"content-length", "content-type", "accept-ranges", "cache-control"} |->
     CASE k = "content-length" -> JsStr(size)
       [] k = "content-type" -> getContentType(path)
       [] k = "accept-ranges" -> "bytes"
       [] OTHER -> "no-cache"]

\* getFileSize: parseInt of the HEAD response's Content-Length, 0 without one.
getFileSize(headers) ==
  IF "content-length" \in DOMAIN headers /\ headers["content-length"] # <<>>
  THEN parseInt(headers["content-length"])
  ELSE Num(0)

(***************************************************************************)
(* The inputs of the model.                                                *)
(***************************************************************************)
Paths ==
  { <<"/", "a", ".", "m", "p", "4">>,
    <<"/", "a", ".", "M", "P", "4">>,
    <<"/", "d", ".", "o", "g", "g">>,
    <<"/", "x", ".", "d", "/", "a">>,
    <<"/", "a", ".", "x">> }

\* The halves of a byte-range-spec a client may send: empty or an offset.
Tokens == {<<>>} \cup {Digits(n) : n \in 0..MaxOffset}
RangeValues == {BytesEq \o s \o <<"-">> \o e : s \in Tokens, e \in Tokens}

NoGet == [phase |-> "none", range |-> <<>>, status |-> 0, headers |-> NoHeaders,
          body |-> <<>>]
NoFailure == [kind |-> "none", stage |-> "none", onWire |-> FALSE]

StreamInit ==
  /\ pc = "idle"
  /\ via = "none"
  /\ filePath = <<>>
  /\ range = <<>>
  /\ upstream \in Upstreams
  /\ fileSize = Num(0)
  /\ start = Num(0)
  /\ end = Null
  /\ response = FreshResponse
  /\ wire = NothingOnWire
  /\ get = NoGet
  /\ promise = "none"
  /\ failure = NoFailure

(***************************************************************************)
(* app.get('/api/stream') and HTTPService.streamFile.                      *)
(***************************************************************************)
\* The synchronous part of streamFile(filePath, response, s, e): the upstream
\* GET is issued, with a Range header when s > 0 or e is given.
streamFile(s, e) ==
  /\ start' = s
  /\ end' = e
  /\ get' = [NoGet EXCEPT !.phase = "sent", !.range = RangeHeader(s, e)]
  /\ promise' = "pending"
  /\ pc' = "stream"

\* A handler that probes the upstream without testing for the path.
Request_NoPathCheck(p, r) ==
  /\ pc = "idle"
  /\ via' = "boundary"
  /\ filePath' = p
  /\ range' = r
  /\ pc' = "head"
  /\ UNCHANGED <<wire, response>>
  /\ UNCHANGED <<upstream, fileSize, start, end, get, promise, failure, parserVars, list, calls, timer, browser>>
\* GET /api/stream arrives: 400 without a path, else the HEAD probe is issued.
Request(p, r) ==
  /\ pc = "idle"
  /\ via' = "boundary"
  /\ filePath' = p
  /\ range' = r
  /\ IF p = <<>>
     THEN /\ wire' = json(wire, 400, "File path is required")
          /\ response' = [response EXCEPT !.headersSent = TRUE, !.statusCode = 400]
          /\ pc' = "returned"
     ELSE /\ pc' = "head"
          /\ UNCHANGED <<wire, response>>
  /\ UNCHANGED <<upstream, fileSize, start, end, get, promise, failure, parserVars, list, calls, timer, browser>>

\* The HEAD response arrives: fileSize is known, the handler writes its head
\* (206 with Content-Range for a Range header, else 200) and calls streamFile.
HeadResponse ==
  /\ pc = "head"
  /\ LET size == getFileSize(UpstreamHead(upstream))
     IN /\ fileSize' = size
        /\ IF range # <<>>
           THEN LET s == RangeStart(range)
                    e == RangeEnd(range, size)
                IN /\ response' = writeHead(response, 206,
                                            RangedHead(filePath, s, e, size))
                   /\ streamFile(s, e)
           ELSE /\ response' = writeHead(response, 200, PlainHead(filePath, size))
                /\ streamFile(Num(0), Null)
  /\ UNCHANGED <<via, filePath, range, upstream, wire, failure, parserVars, list, calls, timer, browser>>

\* The HEAD request fails (req 'error', or the 10 s timeout): getFileSize
\* rejects, and the handler's catch answers 500 as no header is sent.
HeadFailure(kind) ==
  /\ pc = "head"
  /\ failure' = [kind |-> kind, stage |-> "head", onWire |-> wire.status # 0]
  /\ IF ~response.headersSent
     THEN /\ wire' = json(wire, 500, kind)
          /\ response' = [response EXCEPT !.headersSent = TRUE, !.statusCode = 500]
     ELSE UNCHANGED <<wire, response>>
  /\ pc' = "returned"
  /\ UNCHANGED <<via, filePath, range, upstream, fileSize, start, end, get,
                 promise, parserVars, list, calls, timer, browser>>

\* A caller other than the boundary calls streamFile with a fresh sink.
DirectCall(p, s, e) ==
  /\ pc = "idle"
  /\ via' = "direct"
  /\ filePath' = p
  /\ streamFile(s, e)
  /\ UNCHANGED <<range, upstream, fileSize, response, wire, failure, parserVars, list, calls, timer, browser>>

\* The upstream answers the GET: the status and headers are forwarded when
\* the sink's headers are not sent yet, and the body is piped to the sink.
GetResponse ==
  /\ pc = "stream"
  /\ get.phase = "sent"
  /\ LET r == UpstreamGet(get.range, upstream)
     IN /\ get' = [get EXCEPT !.phase = "open", !.status = r.status,
                              !.headers = r.headers, !.body = r.body]
        /\ response' = forward(response, r.status, r.headers)
  /\ UNCHANGED <<pc, via, filePath, range, upstream, fileSize, start, end, wire,
                 promise, failure, parserVars, list, calls, timer, browser>>

\* A chunk (one byte) of the upstream body arrives: the pipe writes it to the sink.
GetData ==
  /\ pc = "stream"
  /\ get.phase = "open"
  /\ get.body # <<>>
  /\ wire' = write(response, wire, <<Head(get.body)>>)
  /\ response' = [response EXCEPT !.headersSent = TRUE]
  /\ get' = [get EXCEPT !.body = Tail(@)]
  /\ UNCHANGED <<pc, via, filePath, range, upstream, fileSize, start, end,
                 promise, failure, parserVars, list, calls, timer, browser>>

\* The upstream body ends: the pipe ends the sink, res.on('end') resolves.
GetEnd ==
  /\ pc = "stream"
  /\ get.phase = "open"
  /\ get.body = <<>>
  /\ wire' = [flush(response, wire) EXCEPT !.ended = TRUE]
  /\ response' = [response EXCEPT !.headersSent = TRUE]
  /\ get' = [get EXCEPT !.phase = "ended"]
  /\ promise' = "resolved"
  /\ pc' = "returned"
  /\ UNCHANGED <<via, filePath, range, upstream, fileSize, start, end, failure,
                 parserVars, list, calls, timer, browser>>

\* The three failure handlers of streamFile settle the promise alike: reject
\* when the sink's headers are not sent, else resolve. The boundary's catch
\* answers 500 only when no header is sent.
settle(kind) ==
  /\ failure' = [kind |-> kind, stage |-> "get", onWire |-> wire.status # 0]
  /\ IF ~response.headersSent
     THEN /\ promise' = "rejected"
          /\ IF via = "boundary"
             THEN /\ wire' = json(wire, 500, kind)
                  /\ response' = [response EXCEPT !.headersSent = TRUE,
                                                  !.statusCode = 500]
             ELSE UNCHANGED <<wire, response>>
     ELSE /\ promise' = "resolved"
          /\ UNCHANGED <<wire, response>>
  /\ pc' = "returned"

\* req.on('error'): the upstream connection fails before any response.
GetError ==
  /\ pc = "stream"
  /\ get.phase = "sent"
  /\ get' = [get EXCEPT !.phase = "error"]
  /\ settle("request error")
  /\ UNCHANGED <<via, filePath, range, upstream, fileSize, start, end, parserVars, list, calls, timer, browser>>

\* res.on('error'): the upstream connection fails during the body.
ResError ==
  /\ pc = "stream"
  /\ get.phase = "open"
  /\ get' = [get EXCEPT !.phase = "error"]
  /\ settle("response error")
  /\ UNCHANGED <<via, filePath, range, upstream, fileSize, start, end, parserVars, list, calls, timer, browser>>

\* req.setTimeout(30000, ...): the request is destroyed, the promise settled.
GetTimeout ==
  /\ pc = "stream"
  /\ get.phase \in {"sent", "open"}
  /\ get' = [get EXCEPT !.phase = "destroyed"]
  /\ settle("Request timeout")
  /\ UNCHANGED <<via, filePath, range, upstream, fileSize, start, end, parserVars, list, calls, timer, browser>>

ParserIdle ==
  /\ html = <<>>
  /\ currentPath = <<"/">>
  /\ files = <<>>
  /\ parsed = FALSE

\* GET /api/files: no call yet. origin is the upstream's answer to the listing
\* GET, fetch the state of the GET of fetchHTML, wire the boundary's answer.
NoList ==
  [pc |-> "idle", origin |-> [status |-> 200, message |-> "OK", page |-> <<>>],
   url |-> <<>>, gets |-> 0, fetch |-> "none", data |-> <<>>, promise |-> "none",
   wire |-> [status |-> 0, error |-> "", files |-> <<>>]]
ListIdle == list = NoList

\* Concurrent stream calls: none yet.
ProxyIdle == calls = <<>>

\* An upstream request with its socket timeout: none issued yet.
NoTimer == [kind |-> "none", phase |-> "none", elapsed |-> 0, idle |-> 0,
            promise |-> "none"]

\* The FileBrowser component: not mounted yet.
NoBrowser ==
  [instance |-> 0, currentPath |-> <<"/">>, files |-> <<>>, loading |-> TRUE,
   error |-> Null, pending |-> {}, issued |-> 0, served |-> {}]

Init ==
  /\ StreamInit /\ ParserIdle /\ ListIdle /\ ProxyIdle
  /\ timer = NoTimer /\ browser = NoBrowser

Next ==
  \/ \E p \in Paths \cup {<<>>}, r \in RangeValues \cup {<<>>} : Request(p, r)
  \/ HeadResponse
  \/ \E kind \in {"request error", "Request timeout"} : HeadFailure(kind)
  \/ \E p \in Paths, s \in {Num(0), Num(1)}, e \in {Null, Num(1), Num(2)} :
       DirectCall(p, s, e)
  \/ GetResponse
  \/ GetData
  \/ GetEnd
  \/ GetError
  \/ ResError
  \/ GetTimeout

Spec == Init /\ [][Next]_vars

(***************************************************************************)
(* Properties of the /api/stream boundary and of streamFile.               *)
(***************************************************************************)
\* The Range header "bytes=s-e".
ClientRange(s, e) == BytesEq \o Digits(s) \o <<"-">> \o Digits(e)

\* The handler has written its 200 or 206 head.
HeadWritten ==
  /\ via = "boundary" /\ filePath # <<>>
  /\ pc \in {"stream", "returned"} /\ failure.stage # "head"

\* The upstream body was received to its end (the call is Done).
Done == get.phase = "ended"

IsPrefix(a, b) == Len(a) <= Len(b) /\ SubSeq(b, 1, Len(a)) = a

\* C1: for a resource of known size S and a client range 0 <= s <= e < S,
\* with an upstream that honours Range, the response has status 206,
\* Content-Range "bytes s-e/S", Accept-Ranges "bytes" and Content-Length
\* e-s+1; the client never receives anything but a prefix of the bytes s..e
\* and has received exactly these, in order, when the call is done.
C1_RangedStream ==
  \A s \in 0..MaxOffset, e \in 0..MaxOffset :
    ( /\ HeadWritten
      /\ range = ClientRange(s, e)
      /\ s <= e /\ e < upstream.size
      /\ upstream.hasLength /\ upstream.mode = "honour" )
    => /\ response.statusCode = 206
       /\ response.headers["content-range"] =
            "bytes " \o ToString(s) \o "-" \o ToString(e) \o "/"
              \o ToString(upstream.size)
       /\ response.headers["accept-ranges"] = "bytes"
       /\ response.headers["content-length"] = ToString(e - s + 1)
       /\ wire.status \in {0, 206}
       /\ wire.status = 206 => wire.headers = response.headers
       /\ IsPrefix(wire.body, [i \in 1..(e - s + 1) |-> s + i - 1])
       /\ Done => /\ wire.body = [i \in 1..(e - s + 1) |-> s + i - 1]
                  /\ wire.ended

C1_Witness ==
  /\ HeadWritten /\ Done
  /\ range = ClientRange(1, 2)
  /\ upstream.size = 3 /\ upstream.hasLength /\ upstream.mode = "honour"
  /\ wire.status = 206
  /\ wire.body = <<1, 2>>

\* C2: when the HEAD response reports Content-Length S, a request without a
\* Range header is answered 200 with Content-Length S, the upstream GET
\* carries no Range header, and all S bytes have been delivered in order when
\* the call is done.
C2_PlainStream ==
  ( /\ HeadWritten
    /\ range = <<>>
    /\ upstream.hasLength /\ upstream.mode # "error" )
  => /\ response.statusCode = 200
     /\ response.headers["content-length"] = ToString(upstream.size)
     /\ get.range = <<>>
     /\ wire.status \in {0, 200}
     /\ wire.status = 200 => wire.headers = response.headers
     /\ IsPrefix(wire.body, [i \in 1..upstream.size |-> i - 1])
     /\ Done => /\ wire.body = [i \in 1..upstream.size |-> i - 1]
                /\ wire.ended

C2_Witness ==
  /\ HeadWritten /\ Done
  /\ range = <<>>
  /\ upstream.size = 3 /\ upstream.hasLength /\ upstream.mode = "honour"
  /\ wire.status = 200
  /\ wire.body = <<0, 1, 2>>

\* C3: every 206 response the boundary emits for a Range header carries a
\* range with 0 <= start <= end < size and a positive Content-Length.
C3_RangeInvariant ==
  (via = "boundary" /\ wire.status = 206)
  => /\ ~start.nan /\ ~end.nan /\ ~fileSize.nan
     /\ 0 <= start.v /\ start.v <= end.v /\ end.v < fileSize.v
     /\ wire.headers["content-length"] \in {ToString(n) : n \in 1..(MaxOffset + 1)}

\* The call has settled after an upstream transport failure.
Failed == pc = "returned" /\ failure.kind # "none"

\* C6: an upstream transport failure (in the HEAD probe or in the GET) at a
\* moment when no response header has gone out to the client is answered
\* with HTTP 500 and a JSON error body.
C6_FailureBeforeHeaders ==
  (via = "boundary" /\ Failed /\ ~failure.onWire)
  => wire.status = 500 /\ wire.error # "" /\ wire.ended

\* C7: after an upstream transport failure that follows the response
\* headers, the call being settled, the sink carries no error body and no
\* new status, and the client response is ended.
C7_FailureAfterHeaders ==
  (via = "boundary" /\ Failed /\ failure.onWire)
  => /\ wire.error = ""
     /\ wire.status = response.statusCode
     /\ response.statusCode \in {200, 206}
     /\ wire.ended

\* The upstream response has reached the res callback of streamFile.
Responded == get.status # 0

\* C8 as stated: in every stream call, the boundary's included, the upstream
\* status and every upstream header but content-encoding and
\* transfer-encoding are forwarded to the sink.
C8_ForwardedAlways ==
  Responded
  => /\ response.statusCode = get.status
     /\ \A k \in DOMAIN get.headers \ {"content-encoding", "transfer-encoding"} :
          k \in DOMAIN response.headers /\ response.headers[k] = get.headers[k]
     /\ "content-encoding" \notin DOMAIN response.headers
     /\ "transfer-encoding" \notin DOMAIN response.headers

\* C8 amended: content-encoding and transfer-encoding never reach the sink
\* or the client; a call with a sink whose headers are not sent forwards the
\* upstream status and every other upstream header; a call by the boundary,
\* which has written its own head, forwards no upstream status and no
\* upstream header.
C8_Forwarding ==
  /\ "content-encoding" \notin DOMAIN response.headers \cup DOMAIN wire.headers
  /\ "transfer-encoding" \notin DOMAIN response.headers \cup DOMAIN wire.headers
  /\ (Responded /\ via = "direct")
     => /\ response.statusCode = get.status
        /\ \A k \in DOMAIN get.headers \ {"content-encoding", "transfer-encoding"} :
             k \in DOMAIN response.headers /\ response.headers[k] = get.headers[k]
  /\ (Responded /\ via = "boundary")
     => /\ response.statusCode = IF range = <<>> THEN 200 ELSE 206
        /\ "etag" \notin DOMAIN response.headers
        /\ response.headers["content-type"] # get.headers["content-type"]
        /\ response.headers["cache-control"] = "no-cache"

C8_Witness ==
  /\ via = "direct" /\ Done
  /\ upstream.extra = {"transfer-encoding", "etag"}
  /\ wire.status = get.status
  /\ "etag" \in DOMAIN wire.headers
  /\ "transfer-encoding" \in DOMAIN get.headers

\* The table entry of the path's lower-cased extension, path by path.
TableEntry(path) ==
  CASE path = <<"/", "a", ".", "m", "p", "4">> -> "video/mp4"
    [] path = <<"/", "a", ".", "M", "P", "4">> -> "video/mp4"
    [] path = <<"/", "d", ".", "o", "g", "g">> -> "audio/ogg"
    [] path = <<"/", "x", ".", "d", "/", "a">> -> "application/octet-stream"
    [] path = <<"/", "a", ".", "x">> -> "application/octet-stream"

\* C9: the Content-Type of every stream response (200 or 206) is the table
\* entry of the requested path's lower-cased extension, application/octet-stream
\* without one, whatever Content-Type the upstream response carries.
C9_ContentType ==
  /\ HeadWritten => response.headers["content-type"] = TableEntry(filePath)
  /\ (via = "boundary" /\ wire.status \in {200, 206})
     => wire.headers["content-type"] = TableEntry(filePath)

C9_Witness ==
  /\ via = "boundary" /\ wire.status = 206
  /\ filePath = <<"/", "a", ".", "M", "P", "4">>
  /\ wire.headers["content-type"] = "video/mp4"
  /\ get.headers["content-type"] = "text/html"

(* ---- listing parser ---- *)
(***************************************************************************)
(* HTTPService.parseDirectoryListing (server/httpService.js).              *)
(***************************************************************************)
MaxLines == 3     \* a listing has 1..MaxLines lines (or anchors)

Min(S) == CHOOSE x \in S : \A y \in S : x <= y
Max(S) == CHOOSE x \in S : \A y \in S : x >= y

\* Whether p occurs in s at position k.
Occurs(s, p, k) ==
  k >= 1 /\ k + Len(p) - 1 <= Len(s) /\ SubSeq(s, k, k + Len(p) - 1) = p
Occurrences(s, p) == {k \in 1..Len(s) : Occurs(s, p, k)}

\* The first position >= from of a character of the set cs, 0 when none.
FirstFrom(s, cs, from) ==
  LET ks == {k \in from..Len(s) : s[k] \in cs}
  IN IF ks = {} THEN 0 ELSE Min(ks)

\* The first position >= from where p occurs, 0 when none.
FirstOccurrence(s, p, from) ==
  LET ks == {k \in Occurrences(s, p) : k >= from}
  IN IF ks = {} THEN 0 ELSE Min(ks)

RECURSIVE trimEnd(_)
trimEnd(s) == IF s # <<>> /\ IsSpace(s[Len(s)]) THEN trimEnd(SubSeq(s, 1, Len(s) - 1))
              ELSE s
trim(s) == trimEnd(SkipSpaces(s))

\* s.split(/\s+/).filter(p => p && p !== ''): the words of s.
RECURSIVE words(_)
words(s) ==
  LET t == SkipSpaces(s)
      sp == FirstFrom(t, {" ", "\t", "\n"}, 1)
  IN IF t = <<>> THEN <<>>
     ELSE IF sp = 0 THEN <<t>>
     ELSE <<SubSeq(t, 1, sp - 1)>> \o words(SubSeq(t, sp, Len(t)))

\* s.replace(/\/$/, ''): one trailing slash is removed.
stripSlash(s) == IF s # <<>> /\ s[Len(s)] = "/" THEN SubSeq(s, 1, Len(s) - 1) ELSE s

Quotes == {"\"", "'"}

\* The match of /<a[^>]*href=["']([^"']+)["'][^>]*>([^<]+)<\/a>/ that starts
\* with "<a" at i and has "href=" at j: the positions of the opening quote,
\* the closing quote, the '>' of the tag and the '<' of the "</a>".
LinkTail(line, j) ==
  LET qo == j + 5
      qc == FirstFrom(line, Quotes, qo + 1)
      g == IF qc = 0 THEN 0 ELSE FirstFrom(line, {">"}, qc + 1)
      t == IF g = 0 THEN 0 ELSE FirstFrom(line, {"<"}, g + 1)
  IN [ok |-> /\ qo <= Len(line) /\ line[qo] \in Quotes
             /\ qc >= qo + 2
             /\ g # 0
             /\ t >= g + 2 /\ Occurs(line, <<"<", "/", "a", ">">>, t),
      href |-> IF qc >= qo + 2 THEN SubSeq(line, qo + 1, qc - 1) ELSE <<>>,
      text |-> IF g # 0 /\ t >= g + 2 THEN SubSeq(line, g + 1, t - 1) ELSE <<>>]

\* line.match(/<a[^>]*href=["']([^"']+)["'][^>]*>([^<]+)<\/a>/): <<>> for
\* null, else <<href, text>>, the two groups of the leftmost match, [^>]*
\* being as long as a match allows.
linkMatch(line) ==
  LET cands == {c \in Occurrences(line, <<"<", "a">>) \X Occurrences(line, <<"h", "r", "e", "f", "=">>) :
                  /\ c[2] >= c[1] + 2
                  /\ \A k \in (c[1] + 2)..(c[2] - 1) : line[k] # ">"
                  /\ LinkTail(line, c[2]).ok}
  IN IF cands = {} THEN <<>>
     ELSE LET i == Min({c[1] : c \in cands})
              j == Max({c[2] : c \in {d \in cands : d[1] = i}})
          IN <<LinkTail(line, j).href, LinkTail(line, j).text>>

\* line.replace(/<a[^>]*>.*?<\/a>/, '').trim(): the leftmost anchor, up to the
\* first "</a>" after its tag, is removed.
afterLink(line) ==
  LET close(i) == LET g == FirstFrom(line, {">"}, i + 2)
                  IN IF g = 0 THEN 0 ELSE FirstOccurrence(line, <<"<", "/", "a", ">">>, g + 1)
      starts == {i \in Occurrences(line, <<"<", "a">>) : close(i) # 0}
  IN IF starts = {} THEN trim(line)
     ELSE trim(SubSeq(line, 1, Min(starts) - 1)
               \o SubSeq(line, close(Min(starts)) + 4, Len(line)))

HexChars == <<"0", "1", "2", "3", "4", "5", "6", "7", "8", "9",
              "A", "B", "C", "D", "E", "F">>
IsHex(c) == \E i \in 1..16 : HexChars[i] = c

\* decodeURIComponent on the escapes of the model's alphabet: [ok |-> FALSE]
\* stands for the URIError of a '%' that two hexadecimal digits do not follow.
RECURSIVE decodeURIComponent(_)
decodeURIComponent(s) ==
  IF s = <<>> THEN [ok |-> TRUE, v |-> <<>>]
  ELSE IF Head(s) # "%"
  THEN LET r == decodeURIComponent(Tail(s))
       IN [ok |-> r.ok, v |-> <<Head(s)>> \o r.v]
  ELSE IF Len(s) < 3 \/ ~IsHex(s[2]) \/ ~IsHex(s[3]) THEN [ok |-> FALSE, v |-> <<>>]
  ELSE LET r == decodeURIComponent(SubSeq(s, 4, Len(s)))
           c == CASE SubSeq(s, 2, 3) = <<"2", "0">> -> " "
                  [] SubSeq(s, 2, 3) = <<"2", "F">> -> "/"
                  [] SubSeq(s, 2, 3) = <<"2", "5">> -> "%"
                  [] OTHER -> "?"
       IN [ok |-> r.ok, v |-> <<c>> \o r.v]

\* \w of a regular expression: a letter, a digit or '_'.
IsWordChar(c) ==
  \/ IsDigit(c)
  \/ c = "_"
  \/ c \in {"a", "b", "c", "d", "e", "f", "g", "h", "i", "j", "k", "l", "m",
            "n", "o", "p", "q", "r", "s", "t", "u", "v", "w", "x", "y", "z",
            "A", "B", "C", "D", "E", "F", "G", "H", "I", "J", "K", "L", "M",
            "N", "O", "P", "Q", "R", "S", "T", "U", "V", "W", "X", "Y", "Z"}

\* The object literal of lines 146-149: its keys are looked up as written.
monthMap == [m \in {"Jan", "Feb", "Mar", "Apr", "May", "Jun", "Jul", "Aug", "Sep",
                    "Oct", "Nov", "Dec"} |->
               CASE m = "Jan" -> 0 [] m = "Feb" -> 1 [] m = "Mar" -> 2
                 [] m = "Apr" -> 3 [] m = "May" -> 4 [] m = "Jun" -> 5
                 [] m = "Jul" -> 6 [] m = "Aug" -> 7 [] m = "Sep" -> 8
                 [] m = "Oct" -> 9 [] m = "Nov" -> 10 [] OTHER -> 11]

\* The number of days of month m (0..11) of year y.
daysInMonth(y, m) ==
  IF m = 1 THEN (IF (y % 4 = 0 /\ y % 100 # 0) \/ y % 400 = 0 THEN 29 ELSE 28)
  ELSE IF m \in {3, 5, 8, 10} THEN 30
  ELSE 31

\* MakeDay of the Date constructor: a day below 1 or beyond the month's last
\* day is carried into the neighbouring months.
RECURSIVE makeDay(_, _, _)
makeDay(y, m, d) ==
  IF d < 1
  THEN LET py == IF m = 0 THEN y - 1 ELSE y
           pm == IF m = 0 THEN 11 ELSE m - 1
       IN makeDay(py, pm, d + daysInMonth(py, pm))
  ELSE IF d > daysInMonth(y, m)
  THEN makeDay(IF m = 11 THEN y + 1 ELSE y, IF m = 11 THEN 0 ELSE m + 1,
               d - daysInMonth(y, m))
  ELSE [year |-> y, month |-> m, day |-> d]

\* new Date(year, month, day, hour, minute): a year of 0..99 stands for
\* 1900 + year, minutes beyond 59 are carried into hours, hours beyond 23 into
\* days, days into months. The date is kept as its wall-clock fields; the
\* process runs in the time zone UTC.
newDate(year, month, day, hour, minute) ==
  LET y == IF year >= 0 /\ year <= 99 THEN 1900 + year ELSE year
      h == hour + (minute \div 60)
      dm == makeDay(y, month, day + (h \div 24))
  IN [year |-> dm.year, month |-> dm.month, day |-> dm.day,
      hour |-> h % 24, minute |-> minute % 60]

\* n as a decimal numeral of at least w digits.
RECURSIVE padStart(_, _)
padStart(s, w) == IF Len(s) >= w THEN s ELSE padStart(<<"0">> \o s, w)

\* date.toISOString(), for a year of 0..9999: YYYY-MM-DDTHH:mm:ss.sssZ.
toISOString(date) ==
  padStart(Digits(date.year), 4) \o <<"-">> \o padStart(Digits(date.month + 1), 2)
    \o <<"-">> \o padStart(Digits(date.day), 2) \o <<"T">>
    \o padStart(Digits(date.hour), 2) \o <<":">> \o padStart(Digits(date.minute), 2)
    \o <<":", "0", "0", ".", "0", "0", "0", "Z">>
\* dateStr.match(/(\d{2})-(\w{3})-(\d{4})\s+(\d{2}):(\d{2})/) on
\* dateStr = parts[0] + ' ' + parts[1]: the only white space is the joining
\* blank, so parts[0] ends with DD-Mon-YYYY and parts[1] starts with HH:MM.
dateMatch(p0, p1) ==
  LET n == Len(p0)
      d == SubSeq(p0, n - 10, n)
  IN IF /\ n >= 11 /\ Len(p1) >= 5
        /\ IsDigit(d[1]) /\ IsDigit(d[2]) /\ d[3] = "-"
        /\ IsWordChar(d[4]) /\ IsWordChar(d[5]) /\ IsWordChar(d[6]) /\ d[7] = "-"
        /\ IsDigit(d[8]) /\ IsDigit(d[9]) /\ IsDigit(d[10]) /\ IsDigit(d[11])
        /\ IsDigit(p1[1]) /\ IsDigit(p1[2]) /\ p1[3] = ":"
        /\ IsDigit(p1[4]) /\ IsDigit(p1[5])
     THEN <<SubSeq(d, 1, 2), SubSeq(d, 4, 6), SubSeq(d, 8, 11),
            SubSeq(p1, 1, 2), SubSeq(p1, 4, 5)>>
     ELSE <<>>

\* new Date(dateStr) for the strings of the model. YYYY-MM-DD HH:MM with a
\* month of 01..12, a day of that month, an hour of 00..23 and a minute of
\* 00..59 is that local time. Otherwise words and punctuation before the
\* first number are skipped (the number must not follow a letter directly),
\* then D-Mon-YYYY gives that day at 00:00; any other string of the model is
\* an Invalid Date (Null).
genericDate(dateStr) ==
  LET f == FirstFrom(dateStr, {DigitChars[i] : i \in 1..10}, 1)
      t == IF f = 0 THEN <<>> ELSE SubSeq(dateStr, f, Len(dateStr))
      iso == /\ Len(dateStr) = 16
             /\ \A k \in {1, 2, 3, 4, 6, 7, 9, 10, 12, 13, 15, 16} : IsDigit(dateStr[k])
             /\ dateStr[5] = "-" /\ dateStr[8] = "-" /\ dateStr[11] = " "
             /\ dateStr[14] = ":"
      num(a, b) == parseInt(SubSeq(dateStr, a, b)).v
  IN IF iso
     THEN IF /\ num(6, 7) \in 1..12
             /\ num(9, 10) \in 1..daysInMonth(num(1, 4), num(6, 7) - 1)
             /\ num(12, 13) <= 23 /\ num(15, 16) <= 59
          THEN [year |-> num(1, 4), month |-> num(6, 7) - 1, day |-> num(9, 10),
                hour |-> num(12, 13), minute |-> num(15, 16)]
          ELSE Null
     ELSE IF f = 0 THEN Null
     ELSE IF f > 1 /\ IsWordChar(dateStr[f - 1]) THEN Null
     ELSE IF /\ Len(t) = 11 /\ IsDigit(t[2]) /\ t[3] = "-" /\ t[7] = "-"
             /\ Join(SubSeq(t, 4, 6)) \in DOMAIN monthMap
             /\ IsDigits(SubSeq(t, 8, 11))
     THEN newDate(parseInt(SubSeq(t, 8, 11)).v, monthMap[Join(SubSeq(t, 4, 6))],
                  parseInt(SubSeq(t, 1, 2)).v, 0, 0)
     ELSE Null

\* The date of a line: lines 138-165.
parseDate(parts) ==
  LET m == dateMatch(parts[1], parts[2])
  IN IF m # <<>>
     THEN IF Join(m[2]) \in DOMAIN monthMap
          THEN newDate(parseInt(m[3]).v, monthMap[Join(m[2])], parseInt(m[1]).v,
                       parseInt(m[4]).v, parseInt(m[5]).v)
          ELSE Null
     ELSE genericDate(parts[1] \o <<" ">> \o parts[2])

\* A size read only from lines of three tokens or more.
parseSize_ThreeOnly(parts) ==
  IF Len(parts) >= 3 /\ parts[Len(parts)] # <<"-">> /\ ~parseInt(parts[Len(parts)]).nan
  THEN parseInt(parts[Len(parts)]).v
  ELSE 0
\* The size of a line: lines 167-179.
parseSize(parts) ==
  IF Len(parts) >= 3
  THEN IF parts[Len(parts)] # <<"-">> /\ ~parseInt(parts[Len(parts)]).nan
       THEN parseInt(parts[Len(parts)]).v ELSE 0
  ELSE IF Len(parts) = 2 /\ parts[2] # <<"-">> /\ ~parseInt(parts[2]).nan
  THEN parseInt(parts[2]).v
  ELSE 0

\* The path of an entry: lines 182-194.
resolve(path, cleanHref) ==
  IF path = <<"/">> THEN <<"/">> \o cleanHref
  ELSE IF startsWith(cleanHref, <<"/">>) THEN cleanHref
  ELSE path \o <<"/">> \o cleanHref

\* One iteration of lines.forEach: <<>> when the line is skipped, else the
\* entry pushed.
parseLine(line, path) ==
  LET m == linkMatch(line)
  IN IF trim(line) = <<>> \/ includes(line, <<".", ".", "/">>) \/ includes(line, <<"h", "r", "e", "f", "=", "\"", ".", ".", "/", "\"">>)
     THEN <<>>
     ELSE IF m = <<>> THEN <<>>
     ELSE IF m[1] = <<".", ".", "/">> \/ trim(m[2]) = <<".", ".", "/">> THEN <<>>
     ELSE LET dh == decodeURIComponent(m[1])
              dn == decodeURIComponent(trim(m[2]))
              href == IF dh.ok THEN dh.v ELSE m[1]
              name == IF dh.ok /\ dn.ok THEN dn.v ELSE trim(m[2])
              isDirectory == endsWith(href, <<"/">>) \/ endsWith(name, <<"/">>)
              parts == words(afterLink(line))
          IN << [name |-> stripSlash(name),
                 type |-> IF isDirectory THEN "directory" ELSE "file",
                 size |-> IF Len(parts) >= 2 THEN parseSize(parts) ELSE 0,
                 modified |-> IF Len(parts) >= 2 /\ parseDate(parts) # Null
                              THEN Str(toISOString(parseDate(parts))) ELSE Null,
                 path |-> resolve(path, stripSlash(href))] >>

RECURSIVE parseLines(_, _)
parseLines(lines, path) ==
  IF lines = <<>> THEN <<>>
  ELSE parseLine(Head(lines), path) \o parseLines(Tail(lines), path)

\* Whether the last anchor a line opens is left without its "</a>".
LeavesOpen(line) ==
  /\ Occurrences(line, <<"<", "a", " ">>) # {}
  /\ FirstOccurrence(line, <<"<", "/", "a", ">">>, Max(Occurrences(line, <<"<", "a", " ">>))) = 0

\* pre.innerHTML.split('\n').filter(line => line.trim()) for a <pre> whose
\* text is the given lines: the HTML parser closes an anchor left open right
\* before the next "<a" start tag, or where the <pre> ends.
RECURSIVE preLines(_, _)
preLines(raw, open) ==
  IF raw = <<>> THEN IF open THEN <<<<"<", "/", "a", ">">>>> ELSE <<>>
  ELSE LET line == Head(raw)
           i == FirstOccurrence(line, <<"<", "a", " ">>, 1)
           fixed == IF open /\ i # 0
                    THEN SubSeq(line, 1, i - 1) \o <<"<", "/", "a", ">">> \o SubSeq(line, i, Len(line))
                    ELSE line
           stillOpen == IF i # 0 THEN LeavesOpen(line)
                        ELSE open /\ Occurrences(line, <<"<", "/", "a", ">">>) = {}
       IN (IF trim(fixed) = <<>> THEN <<>> ELSE <<fixed>>)
          \o preLines(Tail(raw), stillOpen)

\* One iteration of allLinks.forEach of the fallback: lines 66-83.
parseLink(link, path) ==
  LET name == trim(link.text)
  IN IF link.href # <<>> /\ link.href # <<".", ".", "/">> /\ ~startsWith(link.href, <<"h", "t", "t", "p">>)
        /\ name # <<>> /\ name # <<".", ".", "/">>
     THEN << [name |-> stripSlash(name),
              type |-> IF endsWith(link.href, <<"/">>) THEN "directory" ELSE "file",
              size |-> 0,
              modified |-> Null,
              path |-> IF path = <<"/">> THEN <<"/">> \o stripSlash(name)
                       ELSE path \o <<"/">> \o stripSlash(name)] >>
     ELSE <<>>

RECURSIVE parseLinks(_, _)
parseLinks(links, path) ==
  IF links = <<>> THEN <<>>
  ELSE parseLink(Head(links), path) \o parseLinks(Tail(links), path)

\* parseDirectoryListing(html, currentPath).
parseDirectoryListing(doc, path) ==
  IF ~doc.pre THEN parseLinks(doc.links, path)
  ELSE parseLines(preLines(doc.lines, FALSE), path)

(***************************************************************************)
(* The listings and current paths the parser is applied to.                *)
(***************************************************************************)
\* <a href="h">t</a>, as a server writes it.
Anchor(h, t) == <<"<", "a", " ", "h", "r", "e", "f", "=", "\"">> \o h \o <<"\"", ">">> \o t \o <<"<", "/", "a", ">">>
DirMeta == <<" ", " ", "0", "7", "-", "D", "e", "c", "-", "2", "0", "2", "5", " ", "1", "0", ":", "3", "6", " ", " ", "-">>
FileMeta == <<" ", " ", "0", "7", "-", "D", "e", "c", "-", "2", "0", "2", "5", " ", "1", "0", ":", "3", "6", " ", " ", "1", "2">>

\* The line of an index page for an entry with href h and text t.
WellFormedLine(h, t) ==
  Anchor(h, t) \o (IF endsWith(h, <<"/">>) THEN DirMeta ELSE FileMeta)
\* The same line with its "</a>" missing.
UnclosedLine(h, t) == <<"<", "a", " ", "h", "r", "e", "f", "=", "\"">> \o h \o <<"\"", ">">> \o t \o DirMeta
ParentLine == Anchor(<<".", ".", "/">>, <<".", ".", "/">>)

\* The anchors of the listings: href and text.
Hrefs == { <<<<"c", "/">>, <<"c", "/">>>>, <<<<"/", "a", "/", "c", "/">>, <<"c", "/">>>>, <<<<"c", ".", "m", "p", "4">>, <<"c", ".", "m", "p", "4">>>>,
           <<<<"a", ".", ".", "/">>, <<"a", ".", ".", "/">>>> }

WellFormedLines == {WellFormedLine(a[1], a[2]) : a \in Hrefs}
MalformedLines == {UnclosedLine(<<"c", "/">>, <<"c", "/">>)}
Lines == WellFormedLines \cup MalformedLines \cup {ParentLine}

Links == {[href |-> a[1], text |-> a[2]] : a \in Hrefs}
           \cup {[href |-> <<".", ".", "/">>, text |-> <<".", ".", "/">>],
                 [href |-> <<"h", "t", "t", "p", ":", "/", "/", "x", "/">>, text |-> <<"x">>],
                 [href |-> <<"m", "a", "i", "l", "t", "o", ":", "x">>, text |-> <<"x">>],
                 [href |-> <<"h", "t", "t", "p", "d", "o", "c", "s", "/">>, text |-> <<"h", "t", "t", "p", "d", "o", "c", "s", "/">>]}

SeqsUpTo(S, n) == UNION {[1..k -> S] : k \in 1..n}

Documents ==
  {[pre |-> TRUE, lines |-> ls, links |-> <<>>] : ls \in SeqsUpTo(Lines, MaxLines)}
  \cup {[pre |-> FALSE, lines |-> <<>>, links |-> ks] : ks \in SeqsUpTo(Links, MaxLines)}

\* The remotePath of listFiles: the root, without and with a trailing slash.
CurrentPaths == {<<"/">>, <<"/", "a">>, <<"/", "a", "/", "b">>, <<"/", "a", "/">>}

StreamIdle ==
  /\ pc = "idle"
  /\ via = "none"
  /\ filePath = <<>>
  /\ range = <<>>
  /\ upstream = [size |-> 0, hasLength |-> TRUE, mode |-> "honour", extra |-> {}]
  /\ fileSize = Num(0)
  /\ start = Num(0)
  /\ end = Null
  /\ response = FreshResponse
  /\ wire = NothingOnWire
  /\ get = NoGet
  /\ promise = "none"
  /\ failure = NoFailure

ParseInit ==
  /\ StreamIdle
  /\ ListIdle
  /\ ProxyIdle
  /\ timer = NoTimer /\ browser = NoBrowser
  /\ html \in Documents
  /\ currentPath \in CurrentPaths
  /\ files = <<>>
  /\ parsed = FALSE

\* parseDirectoryListing on a document with a <pre> block.
ParsePre ==
  /\ ~parsed
  /\ html.pre
  /\ files' = parseDirectoryListing(html, currentPath)
  /\ parsed' = TRUE
  /\ UNCHANGED <<html, currentPath, streamVars, list, calls, timer, browser>>

\* parseDirectoryListing on a document without a <pre> block: the fallback.
ParseFallback ==
  /\ ~parsed
  /\ ~html.pre
  /\ files' = parseDirectoryListing(html, currentPath)
  /\ parsed' = TRUE
  /\ UNCHANGED <<html, currentPath, streamVars, list, calls, timer, browser>>

ParseNext == ParsePre \/ ParseFallback

ParseSpec == ParseInit /\ [][ParseNext]_vars

(***************************************************************************)
(* Properties of the listing parser.                                       *)
(***************************************************************************)
\* A canonical path: begins with '/', has no doubled slash, and ends with
\* '/' only when it is the root.
Canonical(p) ==
  /\ startsWith(p, <<"/">>)
  /\ ~includes(p, <<"/", "/">>)
  /\ endsWith(p, <<"/">>) => p = <<"/">>

\* C4: every entry the parser returns, from the <pre> algorithm or from the
\* fallback, for every current path (root, without and with a trailing
\* slash) and every href (relative or absolute), has a canonical path.
C4_EntryPaths ==
  parsed => \A i \in 1..Len(files) : Canonical(files[i].path)

\* C5: for each pair of {"/", "/a", "/a/b"} x {"c/", "/a/c/", "c.mp4"} the
\* entry's path starts with '/' and has no doubled slash; an href that starts
\* with '/' gives the href itself whatever the current path, any other href
\* is joined to the current path.
C5_Resolve ==
  \A a \in {<<<<"c", "/">>, <<"c", "/">>>>, <<<<"/", "a", "/", "c", "/">>, <<"c", "/">>>>, <<<<"c", ".", "m", "p", "4">>, <<"c", ".", "m", "p", "4">>>>} :
    ( /\ parsed /\ html.pre
      /\ html.lines = <<WellFormedLine(a[1], a[2])>>
      /\ currentPath \in {<<"/">>, <<"/", "a">>, <<"/", "a", "/", "b">>} )
    => /\ Len(files) = 1
       /\ startsWith(files[1].path, <<"/">>)
       /\ ~includes(files[1].path, <<"/", "/">>)
       /\ files[1].path =
            IF startsWith(a[1], <<"/">>) THEN stripSlash(a[1])
            ELSE IF currentPath = <<"/">> THEN <<"/">> \o stripSlash(a[1])
            ELSE currentPath \o <<"/">> \o stripSlash(a[1])

\* The lines of a sequence that are in the set S, in order.
RECURSIVE Only(_, _)
Only(ls, S) ==
  IF ls = <<>> THEN <<>>
  ELSE (IF Head(ls) \in S THEN <<Head(ls)>> ELSE <<>>) \o Only(Tail(ls), S)

\* C10: for a <pre> block of N non-blank lines, k of them with an unclosed
\* anchor and none the parent link, the parser returns N-k entries, those of
\* the well-formed lines in document order, the same entries as without the
\* malformed lines.
C10_MalformedDropped ==
  ( /\ parsed /\ html.pre
    /\ \A i \in 1..Len(html.lines) : html.lines[i] # ParentLine )
  => /\ Len(files) = Len(Only(html.lines, WellFormedLines))
     /\ files = parseDirectoryListing(
                  [html EXCEPT !.lines = Only(html.lines, WellFormedLines)],
                  currentPath)

(* ---- listing service ---- *)
(***************************************************************************)
(* GET /api/files (server/index.js), HTTPService.listFiles and             *)
(* HTTPService.fetchHTML (server/httpService.js).                          *)
(***************************************************************************)
\* The URL listFiles fetches for remotePath, without the base URL: the path
\* itself, a '/' added when it does not end with one.
listUrl(remotePath) ==
  IF remotePath # <<"/">>
  THEN remotePath \o (IF ~endsWith(remotePath, <<"/">>) THEN <<"/">> ELSE <<>>)
  ELSE <<"/">>

\* The URL getFileSize and streamFile request for filePath, without the base
\* URL.
fileUrl(path) == path

\* parse(url).path of the legacy url module, on the characters of the model:
\* a blank is escaped as %20, the text from a '#' on is the fragment and is
\* not part of the path.
RECURSIVE parsedPath(_)
parsedPath(u) ==
  IF u = <<>> THEN <<>>
  ELSE IF Head(u) = "#" THEN <<>>
  ELSE IF Head(u) = " " THEN <<"%", "2", "0">> \o parsedPath(Tail(u))
  ELSE <<Head(u)>> \o parsedPath(Tail(u))

\* `HTTP <<"r", "e", "s", ".", "s", "t", "a", "t", "u", "s", "C", "o", "d", "e">>: <<"r", "e", "s", ".", "s", "t", "a", "t", "u", "s", "M", "e", "s", "s", "a", "g", "e">>`
httpError(status, message) == "HTTP " \o ToString(status) \o ": " \o message

\* A fetchHTML that resolves with the body whatever the status.
fetchOutcome_AnyStatus(status, message, data) ==
  [ok |-> TRUE, data |-> data, error |-> ""]

\* res.on('end') of fetchHTML: the body for status 200, else an error with
\* the status code and the status text.
fetchOutcome(status, message, data) ==
  IF status = 200 THEN [ok |-> TRUE, data |-> data, error |-> ""]
  ELSE [ok |-> FALSE, data |-> <<>>, error |-> httpError(status, message)]

\* res.json(files)
jsonFiles(fs) == [status |-> 200, error |-> "", files |-> fs]
\* res.status(500).json({ error: error.message || 'Unknown error occurred' })
jsonError(message) ==
  [status |-> 500,
   error |-> IF message = "" THEN "Unknown error occurred" ELSE message,
   files |-> <<>>]

(***************************************************************************)
(* The listings the upstream serves and the paths a client asks for.       *)
(***************************************************************************)
Meta(size) == <<" ", " ", "0", "7", "-", "D", "e", "c", "-", "2", "0", "2", "5", " ", "1", "0", ":", "3", "6", " ", " ">> \o size

\* The last token of a line: sizes as index pages print them.
SizeTokens == {<<"-">>, <<"1", "2", "3", "4">>, <<"0">>, <<"1", "2", "K">>, <<"1", ".", "5", "M">>, <<"a", "b", "c">>}
SizeLines == {Anchor(<<"c", ".", "m", "p", "4">>, <<"c", ".", "m", "p", "4">>) \o Meta(t) : t \in SizeTokens}

\* Anchors whose href or text is not a valid URI component, and one that is:
\* href and text.
EscapedHrefs == { <<<<"5", "0", "%", "2", "5", "/">>, <<"5", "0", "%", "/">>>>, <<<<"x", "%", "/">>, <<"x", "%", "/">>>>, <<<<"x", "%", "2", "/">>, <<"x", "/">>>>,
                  <<<<"T", "%", "2", "0", "V", "/">>, <<"T", " ", "V", "/">>>>, <<<<"T", "%", "2", "0", "V", "/">>, <<"T", "%", "2", "0", "V", "/">>>> }
EscapedLines == {WellFormedLine(a[1], a[2]) : a \in EscapedHrefs}

\* Lines with a date or a size that cannot be read, and lines without anchor.
OddLines == { Anchor(<<"c", "/">>, <<"c", "/">>) \o <<" ", " ", "x", "x", " ", "y", "y", " ", " ", "z", "z">>,
              Anchor(<<"c", "/">>, <<"c", "/">>) \o <<" ", " ", "0", "7", "-", "D", "e", "c", "-", "2", "0", "2", "5", " ", "1", "0", ":", "3", "6">>,
              Anchor(<<"c", "/">>, <<"c", "/">>),
              <<"I", "n", "d", "e", "x", " ", "o", "f", " ", "/", "a">>,
              <<"<", "h", "r", ">">> }

\* The date and time tokens of a line: the listing format with the month in
\* three letter cases, with days that exist and one that does not, with a
\* year below 100, and a numeric form.
DateFields == { <<<<"0", "7", "-", "D", "e", "c", "-", "2", "0", "2", "5">>, <<"1", "0", ":", "3", "6">>>>, <<<<"0", "7", "-", "d", "e", "c", "-", "2", "0", "2", "5">>, <<"1", "0", ":", "3", "6">>>>,
                <<<<"0", "7", "-", "D", "E", "C", "-", "2", "0", "2", "5">>, <<"1", "0", ":", "3", "6">>>>, <<<<"2", "9", "-", "F", "e", "b", "-", "2", "0", "2", "4">>, <<"2", "3", ":", "5", "9">>>>,
                <<<<"0", "1", "-", "J", "a", "n", "-", "2", "0", "2", "5">>, <<"0", "0", ":", "0", "0">>>>, <<<<"3", "1", "-", "F", "e", "b", "-", "2", "0", "2", "5">>, <<"1", "0", ":", "3", "6">>>>,
                <<<<"0", "7", "-", "D", "e", "c", "-", "0", "0", "9", "9">>, <<"1", "0", ":", "3", "6">>>>, <<<<"2", "0", "2", "5", "-", "1", "2", "-", "0", "7">>, <<"1", "0", ":", "3", "6">>>> }
\* The line of a file with the date and time tokens f and the size 12.
DateLine(f) == Anchor(<<"c", ".", "m", "p", "4">>, <<"c", ".", "m", "p", "4">>) \o <<" ", " ">> \o f[1] \o <<" ">> \o f[2] \o <<" ", " ", "1", "2">>

\* Lines with two tokens after the anchor.
TwoTokens == { <<<<"0", "7", "-", "D", "e", "c", "-", "2", "0", "2", "5">>, <<"1", "0", ":", "3", "6">>>>, <<<<"0", "7", "-", "D", "e", "c", "-", "2", "0", "2", "5">>, <<"-">>>>,
               <<<<"0", "7", "-", "D", "e", "c", "-", "2", "0", "2", "5">>, <<"1", "2", "3", "4">>>>, <<<<"a", "b", "c">>, <<"d", "e", "f">>>> }
TwoTokenLine(f) == Anchor(<<"c", ".", "m", "p", "4">>, <<"c", ".", "m", "p", "4">>) \o <<" ", " ">> \o f[1] \o <<" ">> \o f[2]
ListLines ==
  WellFormedLines \cup MalformedLines \cup {ParentLine} \cup SizeLines
    \cup EscapedLines \cup OddLines
    \cup {DateLine(f) : f \in DateFields} \cup {TwoTokenLine(f) : f \in TwoTokens}
ListLinks == Links \cup {[href |-> a[1], text |-> a[2]] : a \in EscapedHrefs}

\* The bodies of the upstream's listing response: the empty body, pages
\* without a <pre> block (no anchor, one anchor), an empty <pre> block, and
\* <pre> blocks of one line.
ListPages ==
  {<<>>}
  \cup {[pre |-> FALSE, lines |-> <<>>, links |-> <<>>],
        [pre |-> TRUE, lines |-> <<>>, links |-> <<>>]}
  \cup {[pre |-> FALSE, lines |-> <<>>, links |-> <<k>>] : k \in ListLinks}
  \cup {[pre |-> TRUE, lines |-> <<l>>, links |-> <<>>] : l \in ListLines}

ListStatuses == {<<200, "OK">>, <<301, "Moved Permanently">>, <<404, "Not Found">>,
                 <<500, "Internal Server Error">>}

\* req.query.path: absent (<<>>), or a path.
ListPaths == {<<>>} \cup CurrentPaths

\* this.parseDirectoryListing(html, remotePath) of listFiles, tabulated for
\* the pages and paths of the model.
listings ==
  [pg \in ListPages \ {<<>>} |->
     [p \in CurrentPaths |-> parseDirectoryListing(pg, p)]]

ListInit ==
  /\ StreamIdle
  /\ ParserIdle
  /\ ProxyIdle
  /\ timer = NoTimer /\ browser = NoBrowser
  /\ \E st \in ListStatuses, pg \in ListPages :
       /\ (st[1] # 200 => pg \in {<<>>, [pre |-> FALSE, lines |-> <<>>, links |-> <<>>]})
       /\ list = [NoList EXCEPT !.origin = [status |-> st[1], message |-> st[2],
                                            page |-> pg]]

\* GET /api/files: remotePath is req.query.path or '/', listFiles builds the
\* URL and fetchHTML issues its GET.
ListRequest(p) ==
  /\ list.pc = "idle"
  /\ currentPath' = IF p = <<>> THEN <<"/">> ELSE p
  /\ list' = [list EXCEPT !.pc = "fetch", !.url = listUrl(currentPath'),
                          !.gets = @ + 1, !.fetch = "sent", !.promise = "pending"]
  /\ UNCHANGED <<html, files, parsed, streamVars, calls, timer, browser>>

\* The callback of client.request: the response has begun, data = ''.
FetchResponse ==
  /\ list.pc = "fetch"
  /\ list.fetch = "sent"
  /\ list' = [list EXCEPT !.fetch = "open", !.data = <<>>]
  /\ UNCHANGED <<parserVars, streamVars, calls, timer, browser>>

\* res.on('data'): data += chunk (the body arrives as one chunk).
FetchData ==
  /\ list.pc = "fetch"
  /\ list.fetch = "open"
  /\ list.data # list.origin.page
  /\ list' = [list EXCEPT !.data = list.origin.page]
  /\ UNCHANGED <<parserVars, streamVars, calls, timer, browser>>

\* res.on('end'): fetchHTML settles; on a body listFiles returns [] for the
\* empty one and parses any other, and the boundary answers with the entries;
\* on an error listFiles rethrows and the boundary answers 500.
FetchEnd ==
  /\ list.pc = "fetch"
  /\ list.fetch = "open"
  /\ list.data = list.origin.page
  /\ LET r == fetchOutcome(list.origin.status, list.origin.message, list.data)
     IN IF r.ok
        THEN /\ html' = r.data
             /\ IF r.data = <<>>
                THEN /\ files' = <<>>
                     /\ parsed' = FALSE
                ELSE /\ files' = listings[r.data][currentPath]
                     /\ parsed' = TRUE
             /\ list' = [list EXCEPT !.pc = "returned", !.fetch = "ended",
                                     !.promise = "resolved",
                                     !.wire = jsonFiles(files')]
        ELSE /\ list' = [list EXCEPT !.pc = "returned", !.fetch = "ended",
                                     !.promise = "rejected",
                                     !.wire = jsonError(r.error)]
             /\ UNCHANGED <<html, files, parsed>>
  /\ UNCHANGED <<currentPath, streamVars, calls, timer, browser>>

\* req.on('error'): the connection fails before a response; reject(error).
FetchError ==
  /\ list.pc = "fetch"
  /\ list.fetch = "sent"
  /\ list' = [list EXCEPT !.pc = "returned", !.fetch = "error",
                          !.promise = "rejected",
                          !.wire = jsonError("connect ECONNREFUSED")]
  /\ UNCHANGED <<parserVars, streamVars, calls, timer, browser>>

\* req.setTimeout(10000, ...): req.destroy(), reject(new Error('Request timeout')).
FetchTimeout ==
  /\ list.pc = "fetch"
  /\ list.fetch \in {"sent", "open"}
  /\ list' = [list EXCEPT !.pc = "returned", !.fetch = "destroyed",
                          !.promise = "rejected",
                          !.wire = jsonError("Request timeout")]
  /\ UNCHANGED <<parserVars, streamVars, calls, timer, browser>>

\* The upstream closes the connection after the response headers and before
\* the end of the body: the response is destroyed and emits 'aborted' and
\* 'close', and 'error' only to listeners, of which fetchHTML registers none
\* on res; 'end' is not emitted, and the socket's idle timer ends with the
\* socket. No handler of fetchHTML runs.
FetchAbort ==
  /\ list.pc = "fetch"
  /\ list.fetch = "open"
  /\ list' = [list EXCEPT !.fetch = "aborted"]
  /\ UNCHANGED <<parserVars, streamVars, calls, timer, browser>>
ListNext ==
  \/ \E p \in ListPaths : ListRequest(p)
  \/ FetchResponse
  \/ FetchData
  \/ FetchEnd
  \/ FetchError
  \/ FetchTimeout
  \/ FetchAbort

ListSpec == ListInit /\ [][ListNext]_vars

\* The event loop delivers every event that is due: a response, a chunk, the
\* end of the body, an error, the firing of the idle timer.
FairListSpec == ListSpec /\ WF_vars(ListNext)

(***************************************************************************)
(* Properties of the listing service.                                      *)
(***************************************************************************)
\* The call has returned a listing parsed from a <pre> block of the one line l.
ListedLine(l) ==
  /\ list.pc = "returned" /\ list.promise = "resolved"
  /\ html = [pre |-> TRUE, lines |-> <<l>>, links |-> <<>>]

\* The call has returned a listing parsed without <pre> block from the one
\* anchor with href h and text t.
ListedLink(h, t) ==
  /\ list.pc = "returned" /\ list.promise = "resolved"
  /\ html = [pre |-> FALSE, lines |-> <<>>, links |-> <<[href |-> h, text |-> t]>>]

\* The listing GET has been answered to its end with status 200.
Listed200 ==
  list.pc = "returned" /\ list.fetch = "ended" /\ list.origin.status = 200

\* The anchors of EscapedHrefs whose href or text is not a valid URI
\* component.
UndecodableHrefs == { <<<<"5", "0", "%", "2", "5", "/">>, <<"5", "0", "%", "/">>>>, <<<<"x", "%", "/">>, <<"x", "%", "/">>>>, <<<<"x", "%", "2", "/">>, <<"x", "/">>>> }

\* C11: the listing parser never ends with an error: a listing call answered
\* 200 by the upstream returns a sequence of entries, whatever the body (no
\* <pre> block, empty <pre> block, undecodable href or text, unreadable date
\* or size); the line of an anchor whose decoding fails is emitted with its
\* raw href and its raw text; an empty or entry-less body gives the empty
\* sequence.
C11_ParserNeverFails ==
  /\ Listed200 => list.promise = "resolved" /\ list.wire.status = 200
                  /\ list.wire.files = files
  /\ ( /\ Listed200
       /\ list.origin.page \in {<<>>, [pre |-> FALSE, lines |-> <<>>, links |-> <<>>],
                                [pre |-> TRUE, lines |-> <<>>, links |-> <<>>]} )
     => list.wire.files = <<>>
  /\ \A a \in UndecodableHrefs :
       ListedLine(WellFormedLine(a[1], a[2]))
       => /\ Len(files) = 1
          /\ files[1].name = stripSlash(a[2])
          /\ files[1].path = (IF currentPath = <<"/">> THEN <<>> ELSE currentPath)
                               \o <<"/">> \o stripSlash(a[1])

\* C12: for a <pre> line with three tokens after the anchor, the size is 0
\* for the last token '-', the value of a last token that is a decimal
\* integer, and 0 for every last token that is not entirely numeric.
C12_SizeToken ==
  \A t \in SizeTokens :
    ListedLine(Anchor(<<"c", ".", "m", "p", "4">>, <<"c", ".", "m", "p", "4">>) \o Meta(t))
    => /\ Len(files) = 1
       /\ files[1].size = CASE t = <<"1", "2", "3", "4">> -> 1234
                            [] t = <<"0">> -> 0
                            [] t = <<"-">> -> 0
                            [] OTHER -> 0

\* C16: a listing call issues exactly one upstream GET; it returns the body
\* only for the upstream status 200; for every other status the fetch fails
\* with an error made of the status code and the status text, and the
\* boundary answers 500 with that error in a JSON body.
C16_ListFetch ==
  /\ list.gets = IF list.pc = "idle" THEN 0 ELSE 1
  /\ list.promise = "resolved"
     => list.origin.status = 200 /\ html = list.origin.page
  /\ (list.fetch = "ended" /\ list.origin.status = 200)
     => list.promise = "resolved" /\ list.wire.status = 200
  /\ (list.fetch = "ended" /\ list.origin.status # 200)
     => /\ list.promise = "rejected"
        /\ list.wire.status = 500
        /\ list.wire.files = <<>>
        /\ list.wire.error = "HTTP " \o ToString(list.origin.status) \o ": "
                               \o list.origin.message

C16_Witness ==
  /\ list.pc = "returned" /\ list.fetch = "ended" /\ list.gets = 1
  /\ list.origin.status = 404
  /\ list.wire.status = 500
  /\ list.wire.error = "HTTP 404: Not Found"

\* The path of the upstream request a lookup of the entry makes: list for a
\* directory, size or stream for a file.
Lookup(entry) ==
  IF entry.type = "directory" THEN parsedPath(listUrl(entry.path))
  ELSE parsedPath(fileUrl(entry.path))

\* The path of the resource an href designates in the listing of directory
\* dir (the listing's URL ends with '/').
Designated(dir, href) ==
  IF startsWith(href, <<"/">>) THEN href ELSE listUrl(dir) \o href

\* C17: for every anchor of a listing of directory D, the entry emitted for
\* it, by the <pre> algorithm or by the fallback, passed back to list, size
\* or stream, addresses the resource the href designates relative to D; the
\* <pre> algorithm and the fallback give the same path for the same anchor.
C17_PathsConsistent ==
  \A a \in Hrefs \cup EscapedHrefs :
    /\ (ListedLine(WellFormedLine(a[1], a[2])) /\ Len(files) = 1)
       => /\ Lookup(files[1]) = Designated(currentPath, a[1])
          /\ \A i \in 1..Len(parseLinks(<<[href |-> a[1], text |-> a[2]]>>, currentPath)) :
               parseLinks(<<[href |-> a[1], text |-> a[2]]>>, currentPath)[i].path
                 = files[1].path
    /\ (ListedLink(a[1], a[2]) /\ Len(files) = 1)
       => Lookup(files[1]) = Designated(currentPath, a[1])

\* C20: in the <pre> algorithm a line is skipped only when it has no anchor
\* or when its anchor's target is the parent link '../'; every line with a
\* well-formed anchor of another href yields an entry, an href or name that
\* merely contains '../' included.
C20_SkipOnlyParent ==
  /\ \A a \in Hrefs \cup {<<<<"T", "%", "2", "0", "V", "/">>, <<"T", " ", "V", "/">>>>} :
       ListedLine(WellFormedLine(a[1], a[2])) => Len(files) = 1
  /\ ListedLine(ParentLine) => files = <<>>
  /\ ListedLine(<<"I", "n", "d", "e", "x", " ", "o", "f", " ", "/", "a">>) => files = <<>>

(***************************************************************************)
(* Properties of HTTPService.streamFile, continued.                        *)
(***************************************************************************)
\* `<<"n">>` for a number of the model, as a string.
NumStr(a) == IF a.nan THEN "NaN" ELSE ToString(a.v)

\* C19: stream(path, sink, start, end) puts a Range header on the upstream
\* GET if and only if start > 0 or end is not null; the header is
\* 'bytes=start-end' when end is given and 'bytes=start-' when it is not; with
\* start = 0 and end = null the GET carries no Range header.
C19_RangeHeaderIff ==
  get.phase # "none"
  => /\ get.range # <<>> <=> ((~start.nan /\ start.v > 0) \/ end # Null)
     /\ end # Null
        => Join(get.range) = "bytes=" \o NumStr(start) \o "-" \o NumStr(end)
     /\ (end = Null /\ ~start.nan /\ start.v > 0)
        => Join(get.range) = "bytes=" \o NumStr(start) \o "-"
     /\ (end = Null /\ start = Num(0)) => get.range = <<>>

C19_Witness ==
  /\ via = "direct" /\ Done
  /\ start = Num(1) /\ end = Null
  /\ get.range = <<"b", "y", "t", "e", "s", "=", "1", "-">>
  /\ wire.status = 206

(***************************************************************************)
(* Concurrent GET /api/stream calls: each call with its own sink, its own  *)
(* upstream GET and the pipe between them (res.pipe(response)).            *)
(***************************************************************************)
HighWaterMark == 2   \* response.write returns false from this many buffered bytes

\* The calls in flight at once.
Calls == {1, 2}

\* What one call owns: the locals of the handler and of streamFile, the sink
\* (the bytes written to it that the client has not taken yet), what the
\* client has received, and whether the pipe's source is flowing.
NoCall ==
  [pc |-> "idle", range |-> <<>>, fileSize |-> Num(0), start |-> Num(0), end |-> Null,
   response |-> FreshResponse,
   sink |-> [buffer |-> <<>>, closed |-> FALSE, closedIn |-> "none", ended |-> FALSE],
   wire |-> NothingOnWire, get |-> NoGet, gets |-> 0, flowing |-> FALSE,
   promise |-> "none", handlers |-> 0, failure |-> NoFailure, provoked |-> FALSE]

\* The path both calls ask for, and the Range headers they may send.
ProxyPath == <<"/", "a", ".", "m", "p", "4">>
ProxyRanges == {<<>>, ClientRange(0, 1), ClientRange(1, 2)}

ProxyInit ==
  /\ pc = "idle"
  /\ via = "none"
  /\ filePath = <<>>
  /\ range = <<>>
  /\ upstream = [size |-> MaxSize, hasLength |-> TRUE, mode |-> "honour", extra |-> {}]
  /\ fileSize = Num(0)
  /\ start = Num(0)
  /\ end = Null
  /\ response = FreshResponse
  /\ wire = NothingOnWire
  /\ get = NoGet
  /\ promise = "none"
  /\ failure = NoFailure
  /\ ParserIdle
  /\ ListIdle
  /\ timer = NoTimer /\ browser = NoBrowser
  /\ calls = [c \in Calls |-> NoCall]

\* resolve() or reject() of a promise: the first call settles it, a later
\* call changes nothing.
settlePromise(p, outcome) == IF p = "pending" THEN outcome ELSE p

\* A pipe that writes every call's chunks to the sink of the last call.
sinkOf_Last(c) == 2

\* res.pipe(response): the sink is the response of the call's own closure.
sinkOf(c) == c

\* A pipe that never pauses its source.
pipeFlowing_Always(buffer) == TRUE

\* The pipe's ondata: the source keeps flowing while response.write returns
\* true, that is while fewer than highWaterMark bytes are buffered.
pipeFlowing(buffer) == Len(buffer) < HighWaterMark

\* GET /api/stream arrives for call c: the HEAD probe of getFileSize is issued.
PRequest(c, r) ==
  /\ calls[c].pc = "idle"
  /\ calls' = [calls EXCEPT ![c].pc = "head", ![c].range = r]
  /\ UNCHANGED <<streamVars, parserVars, list, timer, browser>>

\* The HEAD response arrives: the handler writes its head and calls
\* streamFile, which issues the call's upstream GET.
PHeadResponse(c) ==
  /\ calls[c].pc = "head"
  /\ LET size == getFileSize(UpstreamHead(upstream))
         r == calls[c].range
         s == IF r # <<>> THEN RangeStart(r) ELSE Num(0)
         e == IF r # <<>> THEN RangeEnd(r, size) ELSE Null
     IN calls' = [calls EXCEPT
          ![c].fileSize = size,
          ![c].response = IF r # <<>>
                          THEN writeHead(@, 206, RangedHead(ProxyPath, s, e, size))
                          ELSE writeHead(@, 200, PlainHead(ProxyPath, size)),
          ![c].start = s,
          ![c].end = e,
          ![c].get = [NoGet EXCEPT !.phase = "sent", !.range = RangeHeader(s, e)],
          ![c].gets = @ + 1,
          ![c].promise = "pending",
          ![c].pc = "stream"]
  /\ UNCHANGED <<streamVars, parserVars, list, timer, browser>>

\* The HEAD request fails: getFileSize rejects, the catch answers 500.
PHeadFailure(c) ==
  /\ calls[c].pc = "head"
  /\ calls' = [calls EXCEPT
       ![c].failure = [kind |-> "request error", stage |-> "head", onWire |-> FALSE],
       ![c].wire = IF calls[c].sink.closed THEN @ ELSE json(@, 500, "request error"),
       ![c].response = [@ EXCEPT !.headersSent = TRUE, !.statusCode = 500],
       ![c].pc = "returned"]
  /\ UNCHANGED <<streamVars, parserVars, list, timer, browser>>

\* The upstream answers the GET of call c: the res callback forwards status
\* and headers when the sink's are not sent, and pipes the body to the sink.
PGetResponse(c) ==
  /\ calls[c].pc = "stream"
  /\ calls[c].get.phase = "sent"
  /\ LET r == UpstreamGet(calls[c].get.range, upstream)
     IN calls' = [calls EXCEPT
          ![c].get = [@ EXCEPT !.phase = "open", !.status = r.status,
                               !.headers = r.headers, !.body = r.body],
          ![c].response = forward(@, r.status, r.headers),
          ![c].flowing = TRUE]
  /\ UNCHANGED <<streamVars, parserVars, list, timer, browser>>

\* A chunk (one byte) of the upstream body of call c arrives while its source
\* flows: the pipe writes it to the sink. A sink whose client is gone drops
\* the chunk and write returns false; else the chunk is buffered and the
\* source is paused when write returns false.
PGetData(c) ==
  /\ calls[c].pc = "stream"
  /\ calls[c].get.phase = "open"
  /\ calls[c].flowing
  /\ calls[c].get.body # <<>>
  /\ LET d == sinkOf(c)
         chunk == <<Head(calls[c].get.body)>>
         read == [calls EXCEPT ![c].get.body = Tail(@)]
     IN IF calls[d].sink.closed
        THEN calls' = [read EXCEPT ![c].flowing = FALSE]
        ELSE calls' = [read EXCEPT
               ![d].sink.buffer = @ \o chunk,
               ![d].response.headersSent = TRUE,
               ![c].flowing = pipeFlowing(calls[d].sink.buffer \o chunk)]
  /\ UNCHANGED <<streamVars, parserVars, list, timer, browser>>

\* The client of call c takes a byte of the sink's buffer (the head goes out
\* before the first byte). An emptied buffer emits 'drain', which resumes a
\* paused source, and completes a response that was ended.
PClientTake(c) ==
  /\ ~calls[c].sink.closed
  /\ calls[c].sink.buffer # <<>>
  /\ LET rest == Tail(calls[c].sink.buffer)
         w == write(calls[c].response, calls[c].wire, <<Head(calls[c].sink.buffer)>>)
     IN calls' = [calls EXCEPT
          ![c].sink.buffer = rest,
          ![c].wire = IF rest = <<>> /\ calls[c].sink.ended
                      THEN [w EXCEPT !.ended = TRUE] ELSE w,
          ![c].flowing = IF rest = <<>> /\ calls[c].get.phase = "open" THEN TRUE ELSE @]
  /\ UNCHANGED <<streamVars, parserVars, list, timer, browser>>

\* The upstream body of call c ends while its source flows: the pipe ends the
\* sink, res.on('end') resolves.
PGetEnd(c) ==
  /\ calls[c].pc = "stream"
  /\ calls[c].get.phase = "open"
  /\ calls[c].flowing
  /\ calls[c].get.body = <<>>
  /\ LET d == sinkOf(c)
         done == [calls EXCEPT
                    ![c].get.phase = "ended",
                    ![c].flowing = FALSE,
                    ![c].promise = settlePromise(@, "resolved"),
                    ![c].handlers = @ + 1,
                    ![c].pc = "returned"]
     IN calls' = [done EXCEPT
          ![d].sink.ended = TRUE,
          ![d].response.headersSent = TRUE,
          ![d].wire = IF ~calls[d].sink.closed /\ calls[d].sink.buffer = <<>>
                      THEN [flush(calls[d].response, @) EXCEPT !.ended = TRUE]
                      ELSE @]
  /\ UNCHANGED <<streamVars, parserVars, list, timer, browser>>

\* The client connection of call c closes: the sink is destroyed, what it
\* buffered is lost, and the pipe, if there is one, unpipes and pauses its
\* source. Nothing in the handler or in streamFile listens to the closure.
PClientClose(c) ==
  /\ calls[c].pc \in {"head", "stream"}
  /\ ~calls[c].sink.closed
  /\ calls' = [calls EXCEPT
       ![c].sink = [@ EXCEPT !.closed = TRUE, !.buffer = <<>>,
                             !.closedIn = IF calls[c].pc = "head" THEN "head"
                                          ELSE calls[c].get.phase],
       ![c].flowing = FALSE]
  /\ UNCHANGED <<streamVars, parserVars, list, timer, browser>>

\* One of the failure handlers of streamFile runs for call c: reject when the
\* sink's headers are not sent, else resolve; the boundary's catch answers 500
\* only when no header is sent.
psettle(cs, c, kind, stage) ==
  LET rejects == ~cs[c].response.headersSent
      first == cs[c].promise = "pending"
  IN [cs EXCEPT
        ![c].failure = IF first THEN [kind |-> kind, stage |-> stage,
                                      onWire |-> cs[c].wire.status # 0]
                       ELSE @,
        ![c].promise = settlePromise(@, IF rejects THEN "rejected" ELSE "resolved"),
        ![c].handlers = @ + 1,
        ![c].flowing = FALSE,
        ![c].wire = IF first /\ rejects /\ ~cs[c].sink.closed
                    THEN json(@, 500, kind) ELSE @,
        ![c].response = IF first /\ rejects
                        THEN [@ EXCEPT !.headersSent = TRUE, !.statusCode = 500]
                        ELSE @,
        ![c].pc = "returned"]

\* req.on('error'): the upstream connection of call c fails before a response.
PGetError(c) ==
  /\ calls[c].pc = "stream"
  /\ calls[c].get.phase = "sent"
  /\ calls' = psettle([calls EXCEPT ![c].get.phase = "error"], c, "request error", "sent")
  /\ UNCHANGED <<streamVars, parserVars, list, timer, browser>>

\* res.on('error'): the upstream connection of call c fails during the body.
PResError(c) ==
  /\ calls[c].pc = "stream"
  /\ calls[c].get.phase = "open"
  /\ calls' = psettle([calls EXCEPT ![c].get.phase = "error"], c, "response error", "open")
  /\ UNCHANGED <<streamVars, parserVars, list, timer, browser>>

\* req.setTimeout(30000, ...): the socket of call c was idle; req.destroy(),
\* then the promise is settled. The destroyed request will emit 'error'.
PTimeout(c) ==
  /\ calls[c].pc = "stream"
  /\ calls[c].get.phase \in {"sent", "open"}
  /\ calls' = psettle([calls EXCEPT ![c].get.phase = "destroyed", ![c].provoked = TRUE],
                      c, "Request timeout", calls[c].get.phase)
  /\ UNCHANGED <<streamVars, parserVars, list, timer, browser>>

\* The 'error' event that req.destroy() provokes ('socket hang up', or
\* 'aborted' on the response): the error handler runs on the settled promise.
PProvokedError(c) ==
  /\ calls[c].get.phase = "destroyed"
  /\ calls[c].provoked
  /\ calls' = psettle([calls EXCEPT ![c].provoked = FALSE], c, "socket hang up",
                      calls[c].failure.stage)
  /\ UNCHANGED <<streamVars, parserVars, list, timer, browser>>

ProxyNext ==
  \E c \in Calls :
    \/ \E r \in ProxyRanges : PRequest(c, r)
    \/ PHeadResponse(c)
    \/ PHeadFailure(c)
    \/ PGetResponse(c)
    \/ PGetData(c)
    \/ PClientTake(c)
    \/ PGetEnd(c)
    \/ PClientClose(c)
    \/ PGetError(c)
    \/ PResError(c)
    \/ PTimeout(c)
    \/ PProvokedError(c)

ProxySpec == ProxyInit /\ [][ProxyNext]_vars

(***************************************************************************)
(* Properties of concurrent stream calls.                                  *)
(***************************************************************************)
\* The bytes call c asked for.
Expected(c) ==
  IF calls[c].range = <<>> THEN Resource(upstream.size)
  ELSE IF calls[c].range = ClientRange(0, 1) THEN <<0, 1>>
  ELSE <<1, 2>>

\* C13: two stream calls for the same path that run concurrently, under
\* every interleaving of their upstream chunks, each issue one upstream GET
\* of their own with their own Range header, and each sink receives the
\* bytes of its own range in order, all of them when the call is done, and no
\* byte of the other call.
C13_Isolation ==
  \A c \in Calls :
    /\ calls[c].pc \in {"idle", "head"} => calls[c].gets = 0
    /\ (calls[c].pc \in {"stream", "returned"} /\ calls[c].failure.stage # "head")
       => /\ calls[c].gets = 1
          /\ calls[c].get.range = calls[c].range
          /\ IsPrefix(calls[c].wire.body \o calls[c].sink.buffer, Expected(c))
          /\ (calls[c].get.phase = "ended" /\ ~calls[c].sink.closed)
             => calls[c].wire.body \o calls[c].sink.buffer = Expected(c)
          /\ calls[c].wire.ended => calls[c].wire.body = Expected(c)

C13_Witness ==
  /\ calls[1].range = ClientRange(0, 1) /\ calls[2].range = ClientRange(1, 2)
  /\ calls[1].get.phase = "open" /\ calls[1].wire.body = <<0>>
  /\ calls[2].get.phase = "ended" /\ calls[2].wire.body = <<1, 2>>
  /\ calls[2].wire.ended

\* C14: once the client connection of a call has closed in HeadersPending or
\* in Streaming, the upstream transfer of the call does not continue: no
\* upstream response is taken and no further chunk is read, the upstream
\* request can only be aborted.
C14_CloseAborts ==
  [][\A c \in Calls :
       ( /\ calls[c].sink.closed
         /\ calls[c].sink.closedIn \in {"sent", "open"}
         /\ calls[c].get.phase \in {"sent", "open"} )
       => /\ calls'[c].get.status = calls[c].get.status
          /\ calls'[c].get.body = calls[c].get.body
          /\ calls'[c].get.phase \in {calls[c].get.phase, "destroyed", "error"}]_vars

\* C15: no chunk is read from upstream while the sink's buffer is full, and
\* the bytes read from upstream that the client has not taken never exceed
\* the high-water mark, whatever the size of the resource.
C15_Backpressure ==
  [][\A c \in Calls :
       /\ Len(calls[c].sink.buffer) >= HighWaterMark
          => calls'[c].get.body = calls[c].get.body
       /\ Len(calls'[c].sink.buffer) <= HighWaterMark]_vars

C15_Witness ==
  /\ calls[1].range = <<>>
  /\ upstream.size > HighWaterMark
  /\ Len(calls[1].sink.buffer) = HighWaterMark
  /\ calls[1].get.phase = "open" /\ calls[1].get.body # <<>>
  /\ ~calls[1].flowing

\* The state of a stream call in the state machine of the specification.
StateOf(k) ==
  IF k.promise = "none" THEN "NotStarted"
  ELSE IF k.promise = "pending"
  THEN IF k.get.phase = "sent" THEN "HeadersPending" ELSE "Streaming"
  ELSE IF k.get.phase = "ended" THEN "Done"
  ELSE IF k.failure.stage = "sent" THEN "FailedBeforeHeaders"
  ELSE "FailedAfterHeaders"

\* One step of call c in the state machine: a transition of the machine,
\* the error surfaced (the promise rejected) in FailedBeforeHeaders and not
\* surfaced in FailedAfterHeaders, and no change of a settled outcome.
InStateMachine(c) ==
  LET a == StateOf(calls[c])
      b == StateOf(calls'[c])
  IN /\ a # b => <<a, b>> \in { <<"NotStarted", "HeadersPending">>,
                                <<"HeadersPending", "Streaming">>,
                                <<"Streaming", "Done">>,
                                <<"HeadersPending", "FailedBeforeHeaders">>,
                                <<"Streaming", "FailedAfterHeaders">> }
     /\ b = "FailedBeforeHeaders" => calls'[c].promise = "rejected"
     /\ b = "FailedAfterHeaders" => calls'[c].promise = "resolved"
     /\ a \in {"Done", "FailedBeforeHeaders", "FailedAfterHeaders"}
        => calls'[c].promise = calls[c].promise

\* C18: every stream call follows NotStarted -> HeadersPending -> Streaming
\* -> Done; a transport failure in HeadersPending leads to FailedBeforeHeaders
\* with the error surfaced, one in Streaming to FailedAfterHeaders with no
\* error surfaced; the three final states are terminal, the outcome being
\* settled once also when a timeout and the request error it provokes both
\* fire; no other transition occurs.
C18_StateMachine == [][\A c \in Calls : InStateMachine(c)]_vars

(***************************************************************************)
(* Properties of the listing parser: dates, sizes and the fallback.        *)
(***************************************************************************)
\* C21: for a <pre> line whose two tokens after the anchor are DD-Mon-YYYY
\* HH:MM the month is read whatever its letter case ('Dec', 'dec' and 'DEC'
\* give the same modified value); tokens of another form go to the generic
\* date parsing; modified is null only when both readings fail; the line
\* yields its entry in every case.
C21_DateParsing ==
  /\ \A f \in DateFields : ListedLine(DateLine(f)) => Len(files) = 1
  /\ \A mon \in {<<"D", "e", "c">>, <<"d", "e", "c">>, <<"D", "E", "C">>} :
       ListedLine(DateLine(<<<<"0", "7", "-">> \o mon \o <<"-", "2", "0", "2", "5">>, <<"1", "0", ":", "3", "6">>>>))
       => files[1].modified = Str(<<"2", "0", "2", "5", "-", "1", "2", "-", "0", "7", "T", "1", "0", ":", "3", "6", ":", "0", "0", ".", "0", "0", "0", "Z">>)
  /\ ListedLine(DateLine(<<<<"2", "0", "2", "5", "-", "1", "2", "-", "0", "7">>, <<"1", "0", ":", "3", "6">>>>))
     => files[1].modified = Str(<<"2", "0", "2", "5", "-", "1", "2", "-", "0", "7", "T", "1", "0", ":", "3", "6", ":", "0", "0", ".", "0", "0", "0", "Z">>)
  /\ ListedLine(Anchor(<<"c", "/">>, <<"c", "/">>) \o <<" ", " ", "x", "x", " ", "y", "y", " ", " ", "z", "z">>)
     => Len(files) = 1 /\ files[1].modified = Null

\* An href that begins with a scheme: letters or digits, then ':'.
HasScheme(h) ==
  LET k == FirstFrom(h, {":"}, 1)
  IN k > 1 /\ \A i \in 1..(k - 1) : IsWordChar(h[i]) /\ h[i] # "_"

\* The anchors that are neither the parent link nor scheme-prefixed, in order.
RECURSIVE Kept(_)
Kept(links) ==
  IF links = <<>> THEN <<>>
  ELSE (IF Head(links).href = <<".", ".", "/">> \/ HasScheme(Head(links).href)
        THEN <<>> ELSE <<Head(links)>>) \o Kept(Tail(links))

\* C23: without a <pre> block the parser returns one entry per anchor in
\* document order, with size 0 and modified null, of type directory iff the
\* href ends with '/'; it skips exactly the parent links and the hrefs with a
\* scheme prefix (http:, mailto:); a relative href that only begins with the
\* letters 'http' ('httpdocs/') is not skipped.
C23_Fallback ==
  (parsed /\ ~html.pre)
  => /\ Len(files) = Len(Kept(html.links))
     /\ \A i \in 1..Len(files) :
          /\ files[i].name = stripSlash(trim(Kept(html.links)[i].text))
          /\ files[i].type = (IF endsWith(Kept(html.links)[i].href, <<"/">>)
                              THEN "directory" ELSE "file")
          /\ files[i].size = 0
          /\ files[i].modified = Null
\* The year, month, day, hour and minute a DD-Mon-YYYY HH:MM field states.
FieldOf(f) ==
  [year |-> parseInt(SubSeq(f[1], 8, 11)).v,
   month |-> IF Join(SubSeq(f[1], 4, 6)) \in DOMAIN monthMap
             THEN monthMap[Join(SubSeq(f[1], 4, 6))] ELSE 12,
   day |-> parseInt(SubSeq(f[1], 1, 2)).v,
   hour |-> parseInt(SubSeq(f[2], 1, 2)).v,
   minute |-> parseInt(SubSeq(f[2], 4, 5)).v]

\* A field of the form DD-Mon-YYYY HH:MM with a month name as the listing
\* writes it, a day that exists in that month, an hour of 00..23 and a minute
\* of 00..59.
ValidField(f) ==
  /\ dateMatch(f[1], f[2]) # <<>>
  /\ Len(f[1]) = 11
  /\ FieldOf(f).month \in 0..11
  /\ FieldOf(f).day \in 1..daysInMonth(FieldOf(f).year, FieldOf(f).month)
  /\ FieldOf(f).hour <= 23
  /\ FieldOf(f).minute <= 59

\* The wall-clock fields of new Date(iso) for iso = YYYY-MM-DDTHH:mm:ss.sssZ.
ReadBack(iso) ==
  [year |-> parseInt(SubSeq(iso, 1, 4)).v,
   month |-> parseInt(SubSeq(iso, 6, 7)).v - 1,
   day |-> parseInt(SubSeq(iso, 9, 10)).v,
   hour |-> parseInt(SubSeq(iso, 12, 13)).v,
   minute |-> parseInt(SubSeq(iso, 15, 16)).v]

\* C22: for every line with a valid DD-Mon-YYYY HH:MM field, the entry's
\* modified value, read back as a date, denotes the year, month, day, hour
\* and minute of the field.
C22_DateRoundTrip ==
  \A f \in DateFields :
    (ValidField(f) /\ ListedLine(DateLine(f)))
    => /\ Len(files) = 1
       /\ files[1].modified # Null
       /\ ReadBack(files[1].modified.str) = FieldOf(f)

C26_ProbeFirst ==
  /\ (via = "boundary" /\ pc = "head")
     => response = FreshResponse /\ wire = NothingOnWire /\ get = NoGet
  /\ (via = "boundary" /\ get # NoGet)
     => filePath # <<>> /\ pc \in {"stream", "returned"} /\ failure.stage # "head"
  /\ failure.stage = "head"
     => /\ get = NoGet
        /\ wire.status = 500
        /\ response.statusCode = 500
  /\ (via = "boundary" /\ filePath = <<>>)
     => pc = "returned" /\ wire.status = 400 /\ wire.ended /\ get = NoGet

C26_Witness ==
  /\ via = "boundary" /\ filePath # <<>>
  /\ failure.stage = "head"
  /\ pc = "returned"
  /\ get = NoGet
  /\ wire.status = 500

\* C27: every list call settles in the end, with a result or with an error,
\* whatever the upstream does (connection refused, no response, a status
\* other than 200, a connection closed after the response headers and before
\* the end of the body), and the boundary request gets its response.
C27_EverySettles ==
  (list.pc = "fetch") ~> (list.pc = "returned" /\ list.promise # "pending"
                          /\ list.wire.status # 0)
\* C28: in every stream response that is Done the Content-Length the client
\* was given equals the number of body bytes piped to it, also when the HEAD
\* response has no Content-Length, when the Range header has no end, and
\* when the upstream ignores the Range header.
C28_LengthMatchesBody ==
  (via = "boundary" /\ Done /\ wire.status \in {200, 206})
  => /\ "content-length" \in DOMAIN wire.headers
     /\ wire.headers["content-length"] = ToString(Len(wire.body))

\* C29: the client holds a 200 or 206 with a body only when the upstream
\* answered the GET with 200 or 206; an upstream error status on the GET
\* never reaches the client as a 200 or 206 whose body is the error page.
C29_ErrorNotAsSuccess ==
  (via = "boundary" /\ wire.status \in {200, 206} /\ wire.body # <<>>)
  => get.status \in {200, 206}
(***************************************************************************)
(* The socket timeouts of fetchHTML, getFileSize and streamFile            *)
(* (server/httpService.js): req.setTimeout(ms, callback) arms the idle     *)
(* timer of the request's socket, which every activity on the socket       *)
(* restarts and which fires after ms without activity.                     *)
(***************************************************************************)
FetchTimeoutMs == 10000
SizeTimeoutMs == 10000
StreamTimeoutMs == 30000

MaxSteps == 8     \* time passes in at most MaxSteps steps during a request

\* The delay each kind of request hands to req.setTimeout.
timeoutOf(kind) ==
  CASE kind = "list" -> FetchTimeoutMs
    [] kind = "size" -> SizeTimeoutMs
    [] OTHER -> StreamTimeoutMs

\* The time between two events of a request, in ms.
StepsMs == {5000}

TimerInit ==
  /\ StreamIdle /\ ParserIdle /\ ListIdle /\ ProxyIdle
  /\ timer = NoTimer /\ browser = NoBrowser

\* client.request(options, ...), req.setTimeout(ms, ...), req.end(): the
\* request is issued and its promise is pending.
Issue(kind) ==
  /\ timer.phase = "none"
  /\ timer' = [kind |-> kind, phase |-> "sent", elapsed |-> 0, idle |-> 0,
               promise |-> "pending"]
  /\ UNCHANGED <<streamVars, parserVars, list, calls, browser>>

\* Time passes without activity on the socket; it does not pass the moment
\* the idle timer fires.
Elapse(d) ==
  /\ timer.phase \in {"sent", "open"}
  /\ timer.idle + d <= timeoutOf(timer.kind)
  /\ timer.elapsed + d <= MaxSteps * d
  /\ timer' = [timer EXCEPT !.elapsed = @ + d, !.idle = @ + d]
  /\ UNCHANGED <<streamVars, parserVars, list, calls, browser>>

\* The response headers, or a chunk of the body, arrive: the idle timer
\* starts anew; getFileSize resolves at the headers of the HEAD response,
\* which has no body.
Arrive ==
  /\ timer.phase \in {"sent", "open"}
  /\ timer.kind = "size" => timer.phase = "sent"
  /\ timer' = [timer EXCEPT !.phase = "open", !.idle = 0,
                            !.promise = IF timer.kind = "size" THEN "resolved" ELSE @]
  /\ UNCHANGED <<streamVars, parserVars, list, calls, browser>>

\* The response ends: res.on('end') of fetchHTML and of streamFile resolves.
End ==
  /\ timer.phase = "open"
  /\ timer' = [timer EXCEPT !.phase = "ended", !.promise = "resolved"]
  /\ UNCHANGED <<streamVars, parserVars, list, calls, browser>>

\* The callback of req.setTimeout: req.destroy(); fetchHTML and getFileSize
\* reject, streamFile resolves as the boundary has written the head; a
\* promise already settled stays as it is.
Timeout ==
  /\ timer.phase \in {"sent", "open"}
  /\ timer.idle = timeoutOf(timer.kind)
  /\ timer' = [timer EXCEPT !.phase = "destroyed",
                            !.promise = IF @ # "pending" THEN @
                                        ELSE IF timer.kind = "stream" THEN "resolved"
                                        ELSE "rejected"]
  /\ UNCHANGED <<streamVars, parserVars, list, calls, browser>>

TimerNext ==
  \/ \E kind \in {"list", "size", "stream"} : Issue(kind)
  \/ \E d \in StepsMs : Elapse(d)
  \/ Arrive
  \/ End
  \/ Timeout

TimerSpec == TimerInit /\ [][TimerNext]_vars

\* C25: the deadline of a listing, size or stream request runs from the
\* issuance of the request: once the time elapsed since then exceeds the
\* ceiling (10 s for listings and HEAD, 30 s for streams) the request is not
\* in progress any more, chunks that keep arriving at shorter intervals
\* notwithstanding.
C25_DeadlineFromIssuance ==
  timer.elapsed > timeoutOf(timer.kind) => timer.phase \notin {"sent", "open"}
(***************************************************************************)
(* The FileBrowser component (client/src/components/FileBrowser.jsx) and   *)
(* api.listFiles (client/src/services/api.js).                             *)
(***************************************************************************)
MaxLoads == 3     \* loadFiles is called at most MaxLoads times

\* The paths a user visits.
BrowserPaths == {<<"/">>, <<"/", "a">>, <<"/", "a", "/", "b">>}

\* What api.listFiles(path) settles with: the entries the server parsed out
\* of the directory's page (one file) when it lists it, else the error of
\* the server's answer.
apiListFiles(path, served) ==
  IF path \in served
  THEN [ok |-> TRUE,
        files |-> listings[[pre |-> TRUE,
                            lines |-> <<WellFormedLine(<<"c", ".", "m", "p", "4">>,
                                                       <<"c", ".", "m", "p", "4">>)>>,
                            links |-> <<>>]][path],
        error |-> ""]
  ELSE [ok |-> FALSE, files |-> <<>>, error |-> httpError(404, "Not Found")]

\* The component is mounted: its state is initial and the effect of the
\* first render has called loadFiles(currentPath).
BrowserInit ==
  /\ StreamIdle /\ ParserIdle /\ ListIdle /\ ProxyIdle
  /\ timer = NoTimer
  /\ \E p \in BrowserPaths, served \in SUBSET BrowserPaths :
       browser = [NoBrowser EXCEPT !.instance = 1, !.currentPath = p,
                                   !.pending = {[id |-> 1, instance |-> 1, path |-> p]},
                                   !.issued = 1, !.served = served]

\* The path changes (onPathChange, history navigation): the effect on
\* [currentPath] calls loadFiles(p), which sets loading, clears error and
\* awaits api.listFiles(p). Between '/' and another path App renders the
\* component at another place in the tree: it is mounted anew, in its
\* initial state.
PathChange(p) ==
  /\ browser.instance > 0
  /\ p # browser.currentPath
  /\ browser.issued < MaxLoads
  /\ LET remount == (browser.currentPath = <<"/">>) # (p = <<"/">>)
         inst == IF remount THEN browser.instance + 1 ELSE browser.instance
     IN browser' = [browser EXCEPT
                      !.instance = inst,
                      !.currentPath = p,
                      !.files = IF remount THEN <<>> ELSE @,
                      !.loading = TRUE,
                      !.error = Null,
                      !.pending = @ \cup {[id |-> browser.issued + 1,
                                           instance |-> inst, path |-> p]},
                      !.issued = @ + 1]
  /\ UNCHANGED <<streamVars, parserVars, list, calls, timer>>

\* api.listFiles(r.path) settles and loadFiles goes on: setFiles(fileList),
\* or setError(err.message) in the catch, and setLoading(false) in the
\* finally. On a component that is not mounted any more the setters do
\* nothing.
Respond(r) ==
  /\ r \in browser.pending
  /\ \E res \in {apiListFiles(r.path, browser.served)} :
        browser' =
          IF r.instance # browser.instance
          THEN [browser EXCEPT !.pending = @ \ {r}]
          ELSE [browser EXCEPT
                  !.pending = @ \ {r},
                  !.files = IF res.ok THEN res.files ELSE @,
                  !.error = IF res.ok THEN @ ELSE Str(res.error),
                  !.loading = FALSE]
  /\ UNCHANGED <<streamVars, parserVars, list, calls, timer>>

BrowserNext ==
  \/ \E p \in BrowserPaths : PathChange(p)
  \/ \E r \in browser.pending : Respond(r)

BrowserSpec == BrowserInit /\ [][BrowserNext]_vars

\* C30: after any sequence of path changes whose listing requests complete
\* in any order, once no listing request is pending the file browser shows
\* the result of the request for the current path: its entries, or its
\* error; a late response for a path visited before does not replace it.
C30_LatestListingShown ==
  (browser.instance > 0 /\ browser.pending = {})
  => /\ ~browser.loading
     /\ IF apiListFiles(browser.currentPath, browser.served).ok
        THEN /\ browser.error = Null
             /\ browser.files = apiListFiles(browser.currentPath, browser.served).files
        ELSE browser.error = Str(apiListFiles(browser.currentPath, browser.served).error)
====
